---- MODULE Spec2Model ----
(***************************************************************************)
(* markdownkit: the text pipeline of src/text-processor.js (TextProcessor: *)
(* detectStructure, applyNLP, basicCleanup, cleanup) and the legacy        *)
(* AutoFormatter of src/unnamed/part_000: its rule registry and format.    *)
(*                                                                         *)
(* A text is a sequence of characters, each a one-character string; a      *)
(* line is a text without "\n".                                            *)
(***************************************************************************)
EXTENDS Integers, Sequences, FiniteSets, TLC

\* ------------------------------------------------------------------ bounds
\* Lines per input document.
MaxLines == 3
\* registerPlugin calls per AutoFormatter instance.
MaxRegs == 3
\* The most files in a list a caller writes: what formatFiles is called
\* with, and the file arguments runNuclearMode gets.
MaxFiles == 3
\* The most arguments after the command on a command line.
MaxArgs == 3
\* The wrapWidth of the instances constructed with the semantic breaks on.
SmallWidth == 6
MaxDocs == 2

\* -------------------------------------------------------------- characters
NL == "\n"
SP == " "

LowerSeq == <<"a","b","c","d","e","f","g","h","i","j","k","l","m",
              "n","o","p","q","r","s","t","u","v","w","x","y","z">>
UpperSeq == <<"A","B","C","D","E","F","G","H","I","J","K","L","M",
              "N","O","P","Q","R","S","T","U","V","W","X","Y","Z">>
DigitSet == {"0","1","2","3","4","5","6","7","8","9"}
LowerSet == {LowerSeq[k] : k \in 1..26}
UpperSet == {UpperSeq[k] : k \in 1..26}
LetterSet == LowerSet \cup UpperSet

\* \s of a JavaScript regular expression, and what trim() removes: of the
\* characters texts are made of here, the space, the tab, the two line
\* terminators and the no-break space U+00A0.
WsSet == {" ", "\t", "\n", "\r", "U+00A0"}
IsWs(c) == c \in WsSet
\* \w
IsWordChar(c) == c \in LetterSet \cup DigitSet \cup {"_"}

UpperMap == [c \in LowerSet |-> UpperSeq[CHOOSE k \in 1..26 : LowerSeq[k] = c]]
LowerMap == [c \in UpperSet |-> LowerSeq[CHOOSE k \in 1..26 : UpperSeq[k] = c]]
\* The letters outside ASCII that texts hold here, each with its capital:
\* U+00E2, U+00EF, U+011F, U+0161 and U+00FF.
CasePairs ==
  { <<"U+00E2", "U+00C2">>, <<"U+00EF", "U+00CF">>, <<"U+011F", "U+011E">>,
    <<"U+0161", "U+0160">>, <<"U+00FF", "U+0178">> }
\* String.prototype.toUpperCase / toLowerCase on one character.
ToUpperCase(c) ==
  IF c \in LowerSet THEN UpperMap[c]
  ELSE IF \E p \in CasePairs : p[1] = c
       THEN (CHOOSE p \in CasePairs : p[1] = c)[2] ELSE c
ToLowerCase(c) ==
  IF c \in UpperSet THEN LowerMap[c]
  ELSE IF \E p \in CasePairs : p[2] = c
       THEN (CHOOSE p \in CasePairs : p[2] = c)[1] ELSE c

\* ----------------------------------------------------------------- strings
RECURSIVE TrimStart(_)
TrimStart(s) ==
  IF s = <<>> THEN <<>>
  ELSE IF IsWs(Head(s)) THEN TrimStart(Tail(s)) ELSE s

RECURSIVE TrimEnd(_)
TrimEnd(s) ==
  IF s = <<>> THEN <<>>
  ELSE IF IsWs(s[Len(s)]) THEN TrimEnd(SubSeq(s, 1, Len(s) - 1)) ELSE s

Trim(s) == TrimEnd(TrimStart(s))

StartsWith(s, p) == Len(s) >= Len(p) /\ SubSeq(s, 1, Len(p)) = p
EndsWith(s, p) == Len(s) >= Len(p) /\ SubSeq(s, Len(s) - Len(p) + 1, Len(s)) = p
Includes(s, c) == \E k \in 1..Len(s) : s[k] = c

\* s.slice(k) with a 0-based k, as JavaScript counts.
Slice(s, k) == SubSeq(s, k + 1, Len(s))

\* What a built-in that throws a RangeError gives.
RangeError == <<"RangeError">>

\* c.repeat(n): c repeated n times; a negative count throws a RangeError.
Repeat(c, n) == IF n < 0 THEN RangeError ELSE [k \in 1..n |-> c]

\* text.split(sep) for a one-character separator: never empty, "" gives [""].
SplitOn(t, seps) ==
  LET RECURSIVE F(_, _, _)
      F(k, cur, acc) ==
        IF k > Len(t) THEN Append(acc, cur)
        ELSE IF t[k] \in seps THEN F(k + 1, <<>>, Append(acc, cur))
        ELSE F(k + 1, Append(cur, t[k]), acc)
  IN F(1, <<>>, <<>>)

Split(t) == SplitOn(t, {NL})

\* lines.join(sep)
JoinWith(ls, sep) ==
  LET RECURSIVE F(_, _)
      F(k, acc) ==
        IF k > Len(ls) THEN acc
        ELSE F(k + 1, IF k = 1 THEN ls[k] ELSE acc \o sep \o ls[k])
  IN F(1, <<>>)

Join(ls) == JoinWith(ls, <<NL>>)

\* The number of leading characters of s that satisfy \s.
RECURSIVE LeadingWs(_)
LeadingWs(s) ==
  IF s = <<>> \/ ~IsWs(Head(s)) THEN 0 ELSE 1 + LeadingWs(Tail(s))

\* The length of the run of '#' that starts at position p of t.
RECURSIVE HashRun(_, _)
HashRun(t, p) ==
  IF p > Len(t) \/ t[p] # "#" THEN 0 ELSE 1 + HashRun(t, p + 1)

\* . of a regular expression: any character but a line terminator.
IsDot(c) == c \notin {"\n", "\r"}
AllDot(s) == \A k \in 1..Len(s) : IsDot(s[k])

WordSet == LetterSet \cup DigitSet \cup {"_"}

\* The length of the run of characters of S that starts at position p of s.
RECURSIVE RunOf(_, _, _)
RunOf(s, p, S) ==
  IF p > Len(s) \/ s[p] \notin S THEN 0 ELSE 1 + RunOf(s, p + 1, S)

\* s.includes(sub)
Contains(s, sub) ==
  \E k \in 0..(Len(s) - Len(sub)) : SubSeq(s, k + 1, k + Len(sub)) = sub

\* \s+(.+)$ matched from position p of s: the position where (.+) starts (the
\* run of whitespace gives its last character back when it reaches the end),
\* 0 when there is no match.
WsThenRest(s, p) ==
  LET w == RunOf(s, p, WsSet)
      g == IF p + w <= Len(s) THEN p + w ELSE Len(s)
  IN IF /\ w >= 1
        /\ (p + w <= Len(s) \/ w >= 2)
        /\ AllDot(SubSeq(s, g, Len(s)))
     THEN g ELSE 0

\* The backtick character (U+0060), which a TLA+ string cannot hold.
BT == "BT"
Fence == <<BT, BT, BT>>
\* trimmed.startsWith(three backticks)
IsFenceLine(line) == StartsWith(Trim(line), Fence)

\* ----------------------------------------------------------------- options
defaultOptions ==
  [ nlp |-> TRUE, fixPronouns |-> TRUE, smartQuotes |-> TRUE,
    smartEllipsis |-> TRUE, smartDashes |-> TRUE, capitalizeSentences |-> TRUE,
    detectFolders |-> TRUE, detectLists |-> TRUE, detectLabels |-> TRUE,
    firstLineTitle |-> TRUE, headerLevel |-> 3, wrapWidth |-> 88,
    semanticBreaks |-> FALSE,
    preserveCodeBlocks |-> TRUE, collapseBlankLines |-> TRUE,
    ensurePunctuation |-> TRUE ]


\* ------------------------------------------------- structure rules (table)
\* The character class of the emoji-section-headers pattern, as the file
\* holds it: without the u flag the class is the set of the UTF-16 code units
\* written between the brackets.
EmojiUnits ==
  { "U+011F", "U+0178", "U+0161", "U+00A8", "U+00E2", "U+00A0", "U+00EF",
    "U+00B8", "U+2019", "U+00A1", "U+201D", "U+00A7", "U+201C", "U+2039",
    "U+00AF", "U+2014" }

PriorityWords ==
  { <<"I","M","M","E","D","I","A","T","E">>,
    <<"H","I","G","H"," ","P","R","I","O","R","I","T","Y">>,
    <<"M","E","D","I","U","M"," ","P","R","I","O","R","I","T","Y">>,
    <<"L","O","W"," ","P","R","I","O","R","I","T","Y">> }

\* The words of s, split at runs of whitespace.
SplitWs(s) ==
  LET RECURSIVE F(_, _, _)
      F(k, cur, acc) ==
        IF k > Len(s) THEN IF cur = <<>> THEN acc ELSE Append(acc, cur)
        ELSE IF IsWs(s[k])
             THEN F(k + 1, <<>>, IF cur = <<>> THEN acc ELSE Append(acc, cur))
             ELSE F(k + 1, Append(cur, s[k]), acc)
  IN F(1, <<>>, <<>>)

IsWord(w) == w # <<>> /\ \A k \in 1..Len(w) : IsWordChar(w[k])

\* /^([emoji]\s+)(.+)$/
MatchesEmojiHeader(s) ==
  /\ Len(s) >= 1
  /\ s[1] \in EmojiUnits
  /\ WsThenRest(s, 2) # 0

\* /^(IMMEDIATE|HIGH PRIORITY|MEDIUM PRIORITY|LOW PRIORITY)(\s*-\s*.+):$/
MatchesPriorityLabel(s) ==
  \E p \in PriorityWords :
    /\ StartsWith(s, p)
    /\ s[Len(s)] = ":"
    /\ LET body == SubSeq(s, Len(p) + 1, Len(s) - 1)
           w == LeadingWs(body)
           rest == SubSeq(body, w + 2, Len(body))
       IN /\ Len(body) >= w + 2
          /\ body[w + 1] = "-"
          /\ \E j \in 0..(Len(rest) - 1) :
               /\ \A k \in 1..j : IsWs(rest[k])
               /\ AllDot(SubSeq(rest, j + 1, Len(rest)))

PriorityWordOf(s) == CHOOSE p \in PriorityWords : StartsWith(s, p)

\* /^(make\s+\w+|go\s+mod\s+\w+|npm\s+(?:install|run|test|build)|...)$/
MatchesCommand(s) ==
  s # <<>> /\ ~IsWs(s[1]) /\ ~IsWs(s[Len(s)]) /\
  LET w == SplitWs(s)
      pkg == { <<"i","n","s","t","a","l","l">>, <<"a","d","d">>,
               <<"t","e","s","t">>, <<"b","u","i","l","d">> }
  IN \/ Len(w) = 2 /\ w[1] = <<"m","a","k","e">> /\ IsWord(w[2])
     \/ Len(w) = 3 /\ w[1] = <<"g","o">> /\ w[2] = <<"m","o","d">> /\ IsWord(w[3])
     \/ Len(w) = 2 /\ w[1] = <<"n","p","m">>
          /\ w[2] \in { <<"i","n","s","t","a","l","l">>, <<"r","u","n">>,
                        <<"t","e","s","t">>, <<"b","u","i","l","d">> }
     \/ Len(w) = 2 /\ w[1] = <<"y","a","r","n">> /\ w[2] \in pkg
     \/ Len(w) = 2 /\ w[1] = <<"p","n","p","m">> /\ w[2] \in pkg
     \/ Len(w) = 2 /\ w[1] = <<"g","i","t">>
          /\ w[2] \in { <<"c","l","o","n","e">>, <<"p","u","l","l">>,
                        <<"p","u","s","h">>, <<"c","o","m","m","i","t">> }

\* The loop over STRUCTURE_RULES: the first rule that matches transforms.
ApplyStructureRules(trimmed) ==
  IF MatchesEmojiHeader(trimmed) THEN <<"#", "#", " ">> \o trimmed
  ELSE IF MatchesPriorityLabel(trimmed)
       THEN LET p == PriorityWordOf(trimmed)
            IN <<"*", "*">> \o p \o <<"*", "*">> \o Slice(trimmed, Len(p))
  ELSE IF MatchesCommand(trimmed) THEN <<BT>> \o trimmed \o <<BT>>
  ELSE trimmed

\* -------------------------------------------------------- detectStructure
\* formatFolderName returning the name as it is.
formatFolderNameRaw(name) == name

\* name.split(/[-_]/).map(capitalize).join(' ')
formatFolderName(name) ==
  LET words == SplitOn(name, {"-", "_"})
      cap(w) == IF w = <<>> THEN <<>>
                ELSE <<ToUpperCase(w[1])>> \o
                     [k \in 1..(Len(w) - 1) |-> ToLowerCase(w[k + 1])]
  IN JoinWith([k \in 1..Len(words) |-> cap(words[k])], <<" ">>)

\* trimmed.endsWith('/') && !trimmed.includes(' ')
IsFolderLine(trimmed) == EndsWith(trimmed, <<"/">>) /\ ~Includes(trimmed, " ")

\* Math.floor(indentMatch[1].length / 2)
indentLevel(n) == n \div 2

\* line.match(/^(\s{2,})(\S.*)$/): two or more whitespace characters, then
\* a character that is none, then characters that are no line terminators
\* up to the end of the line.
IndentMatches(line) ==
  /\ LeadingWs(line) >= 2 /\ LeadingWs(line) < Len(line)
  /\ AllDot(Slice(line, LeadingWs(line)))

\* The position of the first ':' of s, 0 when it has none.
RECURSIVE FirstColon(_, _)
FirstColon(s, k) ==
  IF k > Len(s) THEN 0 ELSE IF s[k] = ":" THEN k ELSE FirstColon(s, k + 1)

\* trimmed.match(/^([A-Z][a-zA-Z\s]+):\s+(.+)$/)
KeyValueMatches(trimmed) ==
  LET c == FirstColon(trimmed, 1)
  IN /\ c >= 3
     /\ trimmed[1] \in UpperSet
     /\ \A k \in 2..(c - 1) : trimmed[k] \in LetterSet \/ IsWs(trimmed[k])
     /\ WsThenRest(trimmed, c + 1) # 0

\* keyValueMatch[1] and keyValueMatch[2]
KeyOf(trimmed) == SubSeq(trimmed, 1, FirstColon(trimmed, 1) - 1)
ValueOf(trimmed) ==
  Slice(trimmed, WsThenRest(trimmed, FirstColon(trimmed, 1) + 1) - 1)

\* The context a scan starts with (the let declarations before the loop).
DetectInit ==
  [ inCodeBlock |-> FALSE, isFirstNonEmptyLine |-> TRUE,
    prevLineWasBlank |-> FALSE, processed |-> <<>> ]

\* The code-block branch pushing the trimmed line instead of the line.
DetectCodeLineTrimmed(c, line) == [c EXCEPT !.processed = Append(c.processed, Trim(line))]

\* The branch for a line inside a code block: processed.push(line); continue.
DetectCodeLine(c, line) == [c EXCEPT !.processed = Append(c.processed, line)]

\* The first-line rule pushing a second-level heading.
TitleLinesH2(trimmed) == << <<"#", "#", " ">> \o trimmed, <<>> >>

\* What the first-line rule pushes: the H1 heading and an empty line.
TitleLines(trimmed) == << <<"#", " ">> \o trimmed, <<>> >>

\* One iteration of the loop of detectStructure. A folder line with a
\* negative headerLevel makes repeat throw: the line pushed is RangeError.
DetectLine(c, line, o) ==
  LET trimmed == Trim(line)
      push(x) == Append(c.processed, x)
  IN
  IF StartsWith(trimmed, Fence)
  THEN [c EXCEPT !.inCodeBlock = ~c.inCodeBlock, !.processed = push(line),
                 !.prevLineWasBlank = FALSE]
  ELSE IF c.inCodeBlock /\ o.preserveCodeBlocks
  THEN DetectCodeLine(c, line)
  ELSE IF trimmed = <<>>
  THEN IF o.collapseBlankLines /\ c.prevLineWasBlank
       THEN c
       ELSE [c EXCEPT !.processed = push(<<>>), !.prevLineWasBlank = TRUE]
  ELSE IF o.detectFolders /\ IsFolderLine(trimmed)
  THEN IF Repeat("#", o.headerLevel) = RangeError
       THEN [c EXCEPT !.processed = push(RangeError), !.prevLineWasBlank = FALSE]
       ELSE [c EXCEPT
          !.processed = push(Repeat("#", o.headerLevel) \o <<" ">> \o
                             formatFolderName(SubSeq(trimmed, 1, Len(trimmed) - 1)))
                        \o << <<>> >>,
          !.isFirstNonEmptyLine = FALSE, !.prevLineWasBlank = FALSE]
  ELSE IF o.firstLineTitle /\ c.isFirstNonEmptyLine /\ ~StartsWith(trimmed, <<"#">>)
  THEN [c EXCEPT !.processed = c.processed \o TitleLines(trimmed),
                 !.isFirstNonEmptyLine = FALSE, !.prevLineWasBlank = FALSE]
  ELSE
    LET emit ==
          IF o.detectLists /\ IndentMatches(line)
             /\ ~StartsWith(trimmed, <<"-">>) /\ ~StartsWith(trimmed, <<"*">>)
          THEN LET n == LeadingWs(line)
                   depth == IF indentLevel(n) - 1 > 0 THEN indentLevel(n) - 1 ELSE 0
               IN Repeat(" ", 2 * depth) \o <<"-", " ">> \o Slice(line, n)
          ELSE IF o.detectLabels /\ KeyValueMatches(trimmed)
                  /\ ~StartsWith(trimmed, <<"*", "*">>)
          THEN <<"*", "*">> \o KeyOf(trimmed) \o <<":", "*", "*", " ">>
               \o ValueOf(trimmed)
          ELSE ApplyStructureRules(trimmed)
    IN [c EXCEPT !.processed = push(emit), !.isFirstNonEmptyLine = FALSE,
                 !.prevLineWasBlank = FALSE]

\* The iteration throws.
DetectLineThrows(c, line, o) ==
  LET p == DetectLine(c, line, o).processed
  IN Len(p) > Len(c.processed) /\ p[Len(c.processed) + 1] = RangeError

\* The context after the first n lines, or when the loop threw.
RECURSIVE DetectScan(_, _, _)
DetectScan(lines, n, o) ==
  IF n = 0 THEN DetectInit
  ELSE LET p == DetectScan(lines, n - 1, o)
       IN IF p.processed # <<>> /\ p.processed[Len(p.processed)] = RangeError
          THEN p ELSE DetectLine(p, lines[n], o)

\* detectStructure(text) throws.
DetectThrows(text, o) ==
  LET p == DetectScan(Split(text), Len(Split(text)), o).processed
  IN p # <<>> /\ p[Len(p)] = RangeError

\* The text detectStructure returns, RangeError when it throws.
detectStructure(text, o) ==
  LET lines == Split(text)
  IN IF DetectThrows(text, o) THEN RangeError
     ELSE Join(DetectScan(lines, Len(lines), o).processed)

\* ------------------------------------------------------ ensurePunctuation
\* One of SKIP_PUNCTUATION_PATTERNS matches str.
SkipPunctuation(str) ==
  LET h == HashRun(str, 1)
      n == Len(str)
      RECURSIVE DigitRun(_)
      DigitRun(k) == IF k > n \/ str[k] \notin DigitSet THEN 0 ELSE 1 + DigitRun(k + 1)
      d == DigitRun(1)
  IN \/ h >= 1 /\ h < n /\ IsWs(str[h + 1])
     \/ n >= 2 /\ str[1] \in {"-", "*", "+"} /\ IsWs(str[2])
     \/ d >= 1 /\ d + 2 <= n /\ str[d + 1] = "." /\ IsWs(str[d + 2])
     \/ n >= 2 /\ str[1] = ">" /\ IsWs(str[2])
     \/ StartsWith(str, Fence)
     \/ StartsWith(str, <<"|">>)
     \/ str = <<"-", "-", "-">>
     \/ \A k \in 1..n : IsWs(str[k])
     \/ str[n] = ")"
     \/ str[n] \in {BT, "\"", "'"}

\* ensurePunctuation appending a period whatever the line ends with.
ensurePunctuationAlways(str) == IF str = <<>> THEN str ELSE Append(str, ".")

\* SENTENCE_ENDINGS.test(str)
HasSentenceEnding(str) == str # <<>> /\ str[Len(str)] \in {".", "!", "?", ":", ";"}

ensurePunctuation(str) ==
  IF str = <<>> THEN str
  ELSE IF SkipPunctuation(str) THEN str
  ELSE IF ~HasSentenceEnding(str) THEN Append(str, ".")
  ELSE str

\* ----------------------------------------------------------- basicCleanup
\* The lines basicCleanup, applyNLP and applySemanticBreaks leave alone by
\* their first characters.
StartsStructural(trimmed) ==
  \/ StartsWith(trimmed, <<"#">>)
  \/ StartsWith(trimmed, <<"-">>)
  \/ StartsWith(trimmed, <<"*">>)
  \/ StartsWith(trimmed, <<">">>)
  \/ StartsWith(trimmed, <<"|">>)
  \/ StartsWith(trimmed, <<"*", "*">>)

\* The replacement without the word boundaries: result.replace(/i/g, 'I').
FixPronounsEverywhere(s) == [k \in 1..Len(s) |-> IF s[k] = "i" THEN "I" ELSE s[k]]

\* result.replace(/\bi\b/g, 'I')
FixPronouns(s) ==
  [k \in 1..Len(s) |->
     IF /\ s[k] = "i"
        /\ (k = 1 \/ ~IsWordChar(s[k - 1]))
        /\ (k = Len(s) \/ ~IsWordChar(s[k + 1]))
     THEN "I" ELSE s[k]]

\* result.charAt(0).toUpperCase() + result.slice(1)
CapitalizeFirst(s) == IF s = <<>> THEN s ELSE <<ToUpperCase(s[1])>> \o Tail(s)

\* The callback basicCleanup maps over the lines.
BasicCleanupLine(line, o) ==
  LET trimmed == Trim(line)
  IN IF trimmed = <<>> \/ StartsStructural(trimmed) \/ StartsWith(trimmed, Fence)
     THEN line
     ELSE LET r1 == IF o.capitalizeSentences THEN CapitalizeFirst(trimmed) ELSE trimmed
              r2 == IF o.fixPronouns THEN FixPronouns(r1) ELSE r1
          IN IF o.ensurePunctuation THEN ensurePunctuation(r2) ELSE r2

basicCleanup(text, o) ==
  LET lines == Split(text)
  IN Join([k \in 1..Len(lines) |-> BasicCleanupLine(lines[k], o)])

\* ---------------------------------------------------------------- cleanup
\* result.replace(/([^\n])\n(#{1,6}\s)/g, '$1\n\n$2')
BlankBeforeHeadings(t) ==
  LET n == Len(t)
      RECURSIVE F(_, _)
      F(p, acc) ==
        IF p > n THEN acc
        ELSE LET h == HashRun(t, p + 2)
             IN IF /\ t[p] # NL
                   /\ p + 1 <= n
                   /\ t[p + 1] = NL
                   /\ h >= 1 /\ h <= 6
                   /\ p + 2 + h <= n
                   /\ IsWs(t[p + 2 + h])
                THEN F(p + 3 + h, acc \o <<t[p], NL, NL>> \o SubSeq(t, p + 2, p + 2 + h))
                ELSE F(p + 1, Append(acc, t[p]))
  IN F(1, <<>>)

\* The last position of the run of characters that are no line terminators
\* and that starts at p (p - 1 when there is none): what .+ takes.
RECURSIVE LineEnd(_, _)
LineEnd(t, p) ==
  IF p > Len(t) \/ ~IsDot(t[p]) THEN p - 1 ELSE LineEnd(t, p + 1)

\* result.replace(/(#{1,6}\s.+)\n([^#\n])/g, '$1\n\n$2')
BlankAfterHeadings(t) ==
  LET n == Len(t)
      RECURSIVE F(_, _)
      F(p, acc) ==
        IF p > n THEN acc
        ELSE LET h == HashRun(t, p)
                 q == p + h
                 e == LineEnd(t, q + 1)
             IN IF /\ h >= 1 /\ h <= 6
                   /\ q <= n
                   /\ IsWs(t[q])
                   /\ e >= q + 1
                   /\ e + 2 <= n
                   /\ t[e + 1] = NL
                   /\ t[e + 2] \notin {"#", NL}
                THEN F(e + 3, acc \o SubSeq(t, p, e) \o <<NL, NL, t[e + 2]>>)
                ELSE F(p + 1, Append(acc, t[p]))
  IN F(1, <<>>)

\* result.replace(/\n{3,}/g, '\n\n')
CollapseNewlines(t) ==
  LET n == Len(t)
      RECURSIVE NlRun(_)
      NlRun(p) == IF p > n \/ t[p] # NL THEN 0 ELSE 1 + NlRun(p + 1)
      RECURSIVE F(_, _)
      F(p, acc) ==
        IF p > n THEN acc
        ELSE LET r == NlRun(p)
             IN IF r = 0 THEN F(p + 1, Append(acc, t[p]))
                ELSE F(p + r, acc \o Repeat(NL, IF r >= 3 THEN 2 ELSE r))
  IN F(1, <<>>)

\* result.split('\n').map(l => l.trimEnd()).join('\n')
TrimLineEnds(t) ==
  LET lines == Split(t) IN Join([k \in 1..Len(lines) |-> TrimEnd(lines[k])])

\* cleanup without its last statement's trim().
cleanupNoFinalTrim(text) ==
  TrimLineEnds(CollapseNewlines(BlankAfterHeadings(BlankBeforeHeadings(text))))
  \o <<NL>>

cleanup(text) ==
  Trim(TrimLineEnds(CollapseNewlines(BlankAfterHeadings(BlankBeforeHeadings(text)))))
  \o <<NL>>

\* ----------------------------------------------------------- entry points
processSync(text, o) ==
  IF DetectThrows(text, o) THEN RangeError
  ELSE cleanup(basicCleanup(detectStructure(text, o), o))


\* ------------------------------------------------------------------- NLP
\* U+201C, U+201D, U+2018, U+2019, U+2026, U+2013 and U+2014, each one
\* character.
LDQ == "U+201C"
RDQ == "U+201D"
LSQ == "U+2018"
RSQ == "U+2019"
ELLIPSIS == "U+2026"
ENDASH == "U+2013"
EMDASH == "U+2014"

\* The syntax tree retext works on. A node has a type; a text, white space,
\* punctuation or symbol node has a value, a word, sentence, paragraph or
\* root node has children.
Leaf(t, v) == [ type |-> t, value |-> v, children |-> <<>> ]
Branch(t, ch) == [ type |-> t, value |-> <<>>, children |-> ch ]
HasChildren(n) ==
  n.type \in {"WordNode", "SentenceNode", "ParagraphNode", "RootNode"}

\* nlcst-to-string, and what retext-stringify writes for the root: the
\* values of the leaves in order.
RECURSIVE toString(_)
toString(n) ==
  IF ~HasChildren(n) THEN n.value
  ELSE LET RECURSIVE F(_)
           F(k) == IF k > Len(n.children) THEN <<>>
                   ELSE toString(n.children[k]) \o F(k + 1)
       IN F(1)

LowerText(v) == [k \in 1..Len(v) |-> ToLowerCase(v[k])]
RemoveAt(ch, i) == SubSeq(ch, 1, i - 1) \o SubSeq(ch, i + 1, Len(ch))
IsType(ch, i, t) == i >= 1 /\ i <= Len(ch) /\ ch[i].type = t
IsMark(n) == n.type \in {"PunctuationNode", "SymbolNode"}
AllOf(v, set) == v # <<>> /\ v[1] \in set /\ \A k \in 1..Len(v) : v[k] = v[1]

\* The characters the parser takes as punctuation; a character that is not
\* white space, punctuation, a letter or a digit is a symbol.
PunctuationSet ==
  { "!", "\"", "'", "(", ")", ",", "-", ".", "/", ":", ";", "?", "[", "\\",
    "]", "_", "{", "}", LDQ, RDQ, LSQ, RSQ, ELLIPSIS, ENDASH, EMDASH }

\* The kind of node the parser puts a character in.
NodeType(c) ==
  IF IsWs(c) THEN "WhiteSpaceNode"
  ELSE IF c \in PunctuationSet THEN "PunctuationNode"
  ELSE IF c \in LetterSet \cup DigitSet
            \cup {p[1] : p \in CasePairs} \cup {p[2] : p \in CasePairs}
       THEN "WordNode"
  ELSE "SymbolNode"

\* The tokenizer of parse-latin: a run of word characters is a word node
\* with one text node, a run of white space one white space node, and a run
\* of one repeated punctuation character or symbol one node.
Tokenize(s) ==
  LET n == Len(s)
      cont(k) ==
        /\ NodeType(s[k]) = NodeType(s[k - 1])
        /\ (NodeType(s[k]) \in {"WordNode", "WhiteSpaceNode"} \/ s[k] = s[k - 1])
      create(t, v) ==
        IF t = "WordNode" THEN Branch(t, <<Leaf("TextNode", v)>>) ELSE Leaf(t, v)
      RECURSIVE F(_, _, _)
      F(k, from, acc) ==
        IF k > n
        THEN IF from <= n
             THEN Append(acc, create(NodeType(s[from]), SubSeq(s, from, n)))
             ELSE acc
        ELSE IF k > from /\ ~cont(k)
             THEN F(k + 1, k,
                    Append(acc, create(NodeType(s[from]), SubSeq(s, from, k - 1))))
             ELSE F(k + 1, from, acc)
  IN F(1, 1, <<>>)

\* /^(im|er|em|cause|twas|tis|twere|\d\ds?)$/ of parse-english.
ElisionAffix(v) ==
  \/ v \in { <<"i","m">>, <<"e","r">>, <<"e","m">>, <<"c","a","u","s","e">>,
             <<"t","w","a","s">>, <<"t","i","s">>, <<"t","w","e","r","e">> }
  \/ /\ Len(v) \in {2, 3} /\ v[1] \in DigitSet /\ v[2] \in DigitSet
     /\ (Len(v) = 3 => v[3] = "s")

\* mergeEnglishElisionExceptions of parse-english over the children ch of
\* the sentence, from child i on: "w/", "o'" and "ol'" between white space,
\* an apostrophe before "em", "tis", "90s" and the like, and 'n'.
RECURSIVE mergeEnglishElisionExceptions(_, _)
mergeEnglishElisionExceptions(ch, i) ==
  IF i > Len(ch) THEN ch
  ELSE
    LET child == ch[i]
        length == Len(ch)
        value == toString(child)
        intoPrev == RemoveAt([ch EXCEPT ![i - 1].children = Append(@, child)], i)
    IN IF ~IsMark(child) THEN mergeEnglishElisionExceptions(ch, i + 1)
       ELSE IF value = <<"/">>
       THEN IF i > 1 /\ LowerText(toString(ch[i - 1])) = <<"w">>
            THEN mergeEnglishElisionExceptions(intoPrev, i + 1)
            ELSE mergeEnglishElisionExceptions(ch, i + 1)
       ELSE IF value \in {<<"'">>, <<RSQ>>}
       THEN IF /\ i > 3 /\ i < length
               /\ ch[i - 1].type = "WordNode"
               /\ ch[i - 2].type = "WhiteSpaceNode"
               /\ ch[i + 1].type = "WhiteSpaceNode"
               /\ LowerText(toString(ch[i - 1])) \in {<<"o">>, <<"o", "l">>}
            THEN mergeEnglishElisionExceptions(intoPrev, i + 1)
            ELSE IF /\ i # length /\ ch[i + 1].type = "WordNode"
                    /\ (i = 1 \/ ch[i - 1].type # "WordNode")
            THEN LET v == LowerText(toString(ch[i + 1]))
                 IN IF ElisionAffix(v)
                    THEN mergeEnglishElisionExceptions(
                           RemoveAt([ch EXCEPT ![i + 1].children = <<child>> \o @], i),
                           i + 1)
                    ELSE IF /\ v = <<"n">> /\ i + 1 < length
                            /\ toString(ch[i + 2]) \in {<<"'">>, <<RSQ>>}
                    THEN mergeEnglishElisionExceptions(
                           RemoveAt(RemoveAt(
                             [ch EXCEPT ![i + 1].children =
                                          (<<child>> \o @) \o <<ch[i + 2]>>],
                             i + 2), i),
                           i + 1)
                    ELSE mergeEnglishElisionExceptions(ch, i + 1)
            ELSE mergeEnglishElisionExceptions(ch, i + 1)
       ELSE mergeEnglishElisionExceptions(ch, i + 1)

\* mergeInitialWordSymbol of parse-latin: "&" before a word and not after
\* one goes into the word.
RECURSIVE mergeInitialWordSymbol(_, _)
mergeInitialWordSymbol(ch, i) ==
  IF i > Len(ch) THEN ch
  ELSE IF /\ IsMark(ch[i]) /\ toString(ch[i]) = <<"&">>
          /\ ~IsType(ch, i - 1, "WordNode")
          /\ IsType(ch, i + 1, "WordNode")
       THEN mergeInitialWordSymbol(
              RemoveAt([ch EXCEPT ![i + 1].children = <<ch[i]>> \o @], i),
              IF i > 1 THEN i - 1 ELSE 1)
       ELSE mergeInitialWordSymbol(ch, i + 1)

\* mergeFinalWordSymbol: "-" after a word and not before one goes into the
\* word.
RECURSIVE mergeFinalWordSymbol(_, _)
mergeFinalWordSymbol(ch, i) ==
  IF i > Len(ch) THEN ch
  ELSE IF /\ i > 1 /\ IsMark(ch[i]) /\ toString(ch[i]) = <<"-">>
          /\ ~IsType(ch, i + 1, "WordNode")
          /\ ch[i - 1].type = "WordNode"
       THEN mergeFinalWordSymbol(
              RemoveAt([ch EXCEPT ![i - 1].children = Append(@, ch[i])], i), i)
       ELSE mergeFinalWordSymbol(ch, i + 1)

\* /^([&'\-.:=?@U+00ADU+00B7U+2010-U+2011U+2019U+2027]|_+)$/
WordSymbolInner(v) ==
  \/ v \in { <<"&">>, <<"'">>, <<"-">>, <<".">>, <<":">>, <<"=">>, <<"?">>,
             <<"@">>, <<RSQ>> }
  \/ AllOf(v, {"_"})

\* The scan of mergeInnerWordSymbol from child p on: the children the words
\* after the marks bring, the marks not yet followed by a word, and the
\* place the scan stopped at.
RECURSIVE InnerWordScan(_, _, _, _)
InnerWordScan(ch, p, tokens, queue) ==
  IF p > Len(ch) THEN [ tokens |-> tokens, queue |-> queue, position |-> p ]
  ELSE IF ch[p].type = "WordNode"
       THEN InnerWordScan(ch, p + 1, (tokens \o queue) \o ch[p].children, <<>>)
  ELSE IF IsMark(ch[p]) /\ WordSymbolInner(toString(ch[p]))
       THEN InnerWordScan(ch, p + 1, tokens, Append(queue, ch[p]))
  ELSE [ tokens |-> tokens, queue |-> queue, position |-> p ]

\* mergeInnerWordSymbol: marks between two words go into one word with them.
RECURSIVE mergeInnerWordSymbol(_, _)
mergeInnerWordSymbol(ch, i) ==
  IF i > Len(ch) THEN ch
  ELSE IF i > 1 /\ IsMark(ch[i]) /\ ch[i - 1].type = "WordNode"
       THEN LET scan == InnerWordScan(ch, i, <<>>, <<>>)
                position == scan.position - Len(scan.queue)
            IN IF scan.tokens = <<>> THEN mergeInnerWordSymbol(ch, i + 1)
               ELSE mergeInnerWordSymbol(
                      (SubSeq(ch, 1, i - 2)
                         \o <<[ch[i - 1] EXCEPT !.children = @ \o scan.tokens]>>)
                         \o SubSeq(ch, position, Len(ch)),
                      i)
       ELSE mergeInnerWordSymbol(ch, i + 1)

\* mergeInnerWordSlash: a slash after a word of less than three characters,
\* with the word after it when that has less than three too.
RECURSIVE mergeInnerWordSlash(_, _)
mergeInnerWordSlash(ch, i) ==
  IF i > Len(ch) THEN ch
  ELSE IF /\ i > 1 /\ ch[i - 1].type = "WordNode"
          /\ IsMark(ch[i]) /\ toString(ch[i]) = <<"/">>
       THEN LET hasNext == IsType(ch, i + 1, "WordNode")
                nextValue == IF hasNext THEN toString(ch[i + 1]) ELSE <<>>
                queue == <<ch[i]>> \o (IF hasNext THEN ch[i + 1].children ELSE <<>>)
                count == IF hasNext THEN 2 ELSE 1
            IN IF Len(toString(ch[i - 1])) < 3 /\ Len(nextValue) < 3
               THEN mergeInnerWordSlash(
                      (SubSeq(ch, 1, i - 2)
                         \o <<[ch[i - 1] EXCEPT !.children = @ \o queue]>>)
                         \o SubSeq(ch, i + count, Len(ch)),
                      i)
               ELSE mergeInnerWordSlash(ch, i + 1)
       ELSE mergeInnerWordSlash(ch, i + 1)

\* The loop of mergeInitialisms over the children c of the word, from the
\* last one down: TRUE when the word is single characters with full stops
\* between them and not digits only.
RECURSIVE InitialismScan(_, _, _)
InitialismScan(c, p, isAllDigits) ==
  IF p < 1 THEN ~isAllDigits
  ELSE LET v == toString(c[p])
       IN IF (p - 1) % 2 = 0
          THEN IF Len(v) > 1 THEN FALSE
               ELSE InitialismScan(c, p - 1,
                                   isAllDigits /\ v # <<>> /\ v[1] \in DigitSet)
          ELSE IF v # <<".">>
               THEN IF p - 1 < Len(c) - 2 THEN ~isAllDigits ELSE FALSE
               ELSE InitialismScan(c, p - 1, isAllDigits)

\* mergeInitialisms: the full stop after an initialism goes into the word.
RECURSIVE mergeInitialisms(_, _)
mergeInitialisms(ch, i) ==
  IF i > Len(ch) THEN ch
  ELSE IF /\ i > 1 /\ IsMark(ch[i]) /\ toString(ch[i]) = <<".">>
          /\ ch[i - 1].type = "WordNode"
          /\ Len(ch[i - 1].children) # 1
          /\ Len(ch[i - 1].children) % 2 # 0
          /\ InitialismScan(ch[i - 1].children, Len(ch[i - 1].children), TRUE)
       THEN mergeInitialisms(
              RemoveAt([ch EXCEPT ![i - 1].children = Append(@, ch[i])], i), i)
       ELSE mergeInitialisms(ch, i + 1)

\* The children of the one sentence the text is tokenized into, after the
\* plugins that work inside a sentence, in the order parse-english and
\* parse-latin run them.
SentenceChildren(s) ==
  mergeInitialisms(
    mergeInnerWordSlash(
      mergeInnerWordSymbol(
        mergeFinalWordSymbol(
          mergeInitialWordSymbol(
            mergeEnglishElisionExceptions(Tokenize(s), 1), 1), 1), 1), 1), 1)

\* splitNode: the children ch cut into nodes of the given type after every
\* child k with cut[k], and after the last one.
SplitNode(ch, type, cut) ==
  LET RECURSIVE F(_, _, _)
      F(k, start, acc) ==
        IF k > Len(ch) THEN acc
        ELSE IF k = Len(ch) \/ cut[k]
             THEN F(k + 1, k + 1, Append(acc, Branch(type, SubSeq(ch, start, k))))
             ELSE F(k + 1, start, acc)
  IN F(1, 1, <<>>)

\* /^([!.?U+2026U+203D]+)$/ and the closing marks of mergeAffixSymbol, each
\* on the value of one node.
TerminalMarker(v) == AllOf(v, {"!", ".", "?", ELLIPSIS})
AffixSymbol(v) ==
  AllOf(v, {"!", "\"", "'", ")", ".", "?", "]", "}", RSQ, RDQ, ELLIPSIS})

\* The sentence ss[i] joined to the one after it.
JoinNext(ss, i, children) ==
  (SubSeq(ss, 1, i - 1)
     \o <<[ss[i] EXCEPT !.children = children \o ss[i + 1].children]>>)
     \o SubSeq(ss, i + 2, Len(ss))

\* The sentence ss[i] joined to the one before it.
JoinPrevious(ss, i) ==
  RemoveAt([ss EXCEPT ![i - 1].children = @ \o ss[i].children], i)

\* mergePrefixExceptions of parse-latin, and mergeEnglishPrefixExceptions of
\* parse-english, which differs in its table only: a sentence that ends in a
\* word of the table and a full stop takes the full stop into the word and
\* is joined to the next sentence. The table is a set of words in lower
\* case.
RECURSIVE mergePrefixExceptions(_, _, _)
mergePrefixExceptions(ss, i, table) ==
  IF i > Len(ss) THEN ss
  ELSE
    LET ch == ss[i].children
        n == Len(ch)
    IN IF /\ n > 1 /\ IsMark(ch[n]) /\ toString(ch[n]) = <<".">>
          /\ ch[n - 1].type = "WordNode"
          /\ LowerText(toString(ch[n - 1])) \in table
       THEN LET kept == SubSeq(ch, 1, n - 2)
                          \o <<[ch[n - 1] EXCEPT !.children = Append(@, ch[n])]>>
            IN IF i < Len(ss)
               THEN mergePrefixExceptions(JoinNext(ss, i, kept),
                                          IF i > 1 THEN i - 1 ELSE 1, table)
               ELSE mergePrefixExceptions([ss EXCEPT ![i].children = kept],
                                          i + 1, table)
       ELSE mergePrefixExceptions(ss, i + 1, table)

\* mergeNonWordSentences: a sentence without a word goes to the sentence
\* before it, or else to the one after it.
RECURSIVE mergeNonWordSentences(_, _)
mergeNonWordSentences(ss, i) ==
  IF i > Len(ss) THEN ss
  ELSE IF \E k \in 1..Len(ss[i].children) : ss[i].children[k].type = "WordNode"
       THEN mergeNonWordSentences(ss, i + 1)
  ELSE IF i > 1 THEN mergeNonWordSentences(JoinPrevious(ss, i), i)
  ELSE IF i < Len(ss)
       THEN mergeNonWordSentences(JoinNext(ss, i, ss[i].children), i + 1)
  ELSE mergeNonWordSentences(ss, i + 1)

\* mergeAffixSymbol: a closing mark a sentence starts with goes to the end
\* of the sentence before it.
RECURSIVE mergeAffixSymbol(_, _)
mergeAffixSymbol(ss, i) ==
  IF i > Len(ss) THEN ss
  ELSE IF /\ i > 1 /\ ss[i].children # <<>>
          /\ IsMark(ss[i].children[1])
          /\ AffixSymbol(toString(ss[i].children[1]))
       THEN mergeAffixSymbol(
              [ss EXCEPT ![i - 1].children = Append(@, ss[i].children[1]),
                         ![i].children = Tail(@)],
              i - 1)
       ELSE mergeAffixSymbol(ss, i + 1)

\* The first child of a sentence that is a word or a mark, 0 if none.
RECURSIVE FirstSignificant(_, _)
FirstSignificant(ch, k) ==
  IF k > Len(ch) THEN 0
  ELSE IF ch[k].type = "WordNode" \/ IsMark(ch[k]) THEN k
  ELSE FirstSignificant(ch, k + 1)

\* /^[a-z...]/ on a word: its first character is a lower case letter.
LowerInitial(v) ==
  v # <<>> /\ v[1] \in LowerSet \cup {p[1] : p \in CasePairs}

\* mergeInitialLowerCaseLetterSentences: a sentence whose first word or mark
\* is a word in lower case is joined to the sentence before it.
RECURSIVE mergeInitialLowerCaseLetterSentences(_, _)
mergeInitialLowerCaseLetterSentences(ss, i) ==
  IF i > Len(ss) THEN ss
  ELSE LET k == FirstSignificant(ss[i].children, 1)
       IN IF /\ i > 1 /\ k > 0
             /\ ss[i].children[k].type = "WordNode"
             /\ LowerInitial(toString(ss[i].children[k]))
          THEN mergeInitialLowerCaseLetterSentences(JoinPrevious(ss, i), i)
          ELSE mergeInitialLowerCaseLetterSentences(ss, i + 1)

\* mergeInitialDigitSentences: a sentence that starts with a word that
\* starts with a digit is joined to the sentence before it.
RECURSIVE mergeInitialDigitSentences(_, _)
mergeInitialDigitSentences(ss, i) ==
  IF i > Len(ss) THEN ss
  ELSE IF /\ i > 1 /\ ss[i].children # <<>>
          /\ ss[i].children[1].type = "WordNode"
          /\ toString(ss[i].children[1]) # <<>>
          /\ toString(ss[i].children[1])[1] \in DigitSet
       THEN mergeInitialDigitSentences(JoinPrevious(ss, i), i)
       ELSE mergeInitialDigitSentences(ss, i + 1)

\* mergeAffixExceptions: a sentence whose first word or mark is a comma or a
\* semicolon is joined to the sentence before it.
RECURSIVE mergeAffixExceptions(_, _)
mergeAffixExceptions(ss, i) ==
  IF i > Len(ss) THEN ss
  ELSE LET k == FirstSignificant(ss[i].children, 1)
       IN IF /\ i > 1 /\ k > 0
             /\ IsMark(ss[i].children[k])
             /\ toString(ss[i].children[k]) \in {<<",">>, <<";">>}
          THEN mergeAffixExceptions(JoinPrevious(ss, i), i)
          ELSE mergeAffixExceptions(ss, i + 1)

\* The loop of mergeRemainingFullStops over the children ch of one sentence,
\* from child p down: a full stop that is not the last terminal marker goes
\* into the word before it, or else into the word after it.
RECURSIVE RemainingFullStops(_, _, _)
RemainingFullStops(ch, p, hasFoundDelimiter) ==
  IF p < 1 THEN ch
  ELSE
    LET grandchild == ch[p]
    IN IF ~IsMark(grandchild)
       THEN RemainingFullStops(ch, p - 1,
                               hasFoundDelimiter \/ grandchild.type = "WordNode")
       ELSE IF ~TerminalMarker(toString(grandchild))
       THEN RemainingFullStops(ch, p - 1, hasFoundDelimiter)
       ELSE IF ~hasFoundDelimiter THEN RemainingFullStops(ch, p - 1, TRUE)
       ELSE IF toString(grandchild) # <<".">>
       THEN RemainingFullStops(ch, p - 1, hasFoundDelimiter)
       ELSE IF IsType(ch, p - 1, "WordNode")
       THEN IF /\ p + 2 <= Len(ch) /\ ch[p + 1].type = "WhiteSpaceNode"
               /\ toString(ch[p + 2]) = <<".">>
            THEN RemainingFullStops(ch, p - 1, hasFoundDelimiter)
            ELSE RemainingFullStops(
                   RemoveAt([ch EXCEPT ![p - 1].children = Append(@, grandchild)], p),
                   p - 2, hasFoundDelimiter)
       ELSE IF IsType(ch, p + 1, "WordNode")
       THEN RemainingFullStops(
              RemoveAt([ch EXCEPT ![p + 1].children = <<grandchild>> \o @], p),
              p - 1, hasFoundDelimiter)
       ELSE RemainingFullStops(ch, p - 1, hasFoundDelimiter)

mergeRemainingFullStops(ss) ==
  [k \in 1..Len(ss) |->
     [ss[k] EXCEPT !.children = RemainingFullStops(@, Len(@), FALSE)]]

\* makeInitialWhiteSpaceSiblings: white space a sentence or paragraph starts
\* with moves out before it.
RECURSIVE makeInitialWhiteSpaceSiblings(_, _)
makeInitialWhiteSpaceSiblings(ns, i) ==
  IF i > Len(ns) THEN ns
  ELSE IF /\ HasChildren(ns[i]) /\ ns[i].children # <<>>
          /\ ns[i].children[1].type = "WhiteSpaceNode"
       THEN makeInitialWhiteSpaceSiblings(
              (SubSeq(ns, 1, i - 1)
                 \o <<ns[i].children[1], [ns[i] EXCEPT !.children = Tail(@)]>>)
                 \o SubSeq(ns, i + 1, Len(ns)),
              i + 1)
       ELSE makeInitialWhiteSpaceSiblings(ns, i + 1)

\* makeFinalWhiteSpaceSiblings: white space a sentence or paragraph ends
\* with moves out after it.
RECURSIVE makeFinalWhiteSpaceSiblings(_, _)
makeFinalWhiteSpaceSiblings(ns, i) ==
  IF i > Len(ns) THEN ns
  ELSE LET ch == ns[i].children
       IN IF /\ HasChildren(ns[i]) /\ ch # <<>>
             /\ ch[Len(ch)].type = "WhiteSpaceNode"
          THEN makeFinalWhiteSpaceSiblings(
                 (SubSeq(ns, 1, i - 1)
                    \o <<[ns[i] EXCEPT !.children = SubSeq(ch, 1, Len(ch) - 1)],
                         ch[Len(ch)]>>)
                    \o SubSeq(ns, i + 1, Len(ns)),
                 i)
          ELSE makeFinalWhiteSpaceSiblings(ns, i + 1)

\* The line ends in white space v: "\r\n" is one, as are "\n" and "\r".
RECURSIVE CountNewlines(_, _)
CountNewlines(v, k) ==
  IF k > Len(v) THEN 0
  ELSE IF v[k] = "\r"
       THEN 1 + CountNewlines(v, IF k < Len(v) /\ v[k + 1] = NL THEN k + 2 ELSE k + 1)
  ELSE IF v[k] = NL THEN 1 + CountNewlines(v, k + 1)
  ELSE CountNewlines(v, k + 1)

\* The first child from p on, the last one left out, that is white space
\* with two line ends or more; 0 if none.
RECURSIVE ImplicitBreak(_, _)
ImplicitBreak(ch, p) ==
  IF p >= Len(ch) THEN 0
  ELSE IF ch[p].type = "WhiteSpaceNode" /\ CountNewlines(toString(ch[p]), 1) >= 2
       THEN p
  ELSE ImplicitBreak(ch, p + 1)

\* breakImplicitSentences: a sentence is cut in two at white space that
\* holds two line ends or more.
RECURSIVE breakImplicitSentences(_, _)
breakImplicitSentences(ns, i) ==
  IF i > Len(ns) THEN ns
  ELSE LET ch == ns[i].children
           p == IF ns[i].type = "SentenceNode" THEN ImplicitBreak(ch, 2) ELSE 0
       IN IF p > 0
          THEN breakImplicitSentences(
                 (SubSeq(ns, 1, i - 1)
                    \o <<[ns[i] EXCEPT !.children = SubSeq(ch, 1, p - 1)],
                         ch[p],
                         Branch("SentenceNode", SubSeq(ch, p + 1, Len(ch)))>>)
                    \o SubSeq(ns, i + 1, Len(ns)),
                 i + 1)
          ELSE breakImplicitSentences(ns, i + 1)

\* removeEmptyNodes: a sentence or paragraph without children is dropped.
removeEmptyNodes(ns) ==
  SelectSeq(ns, LAMBDA n : ~(HasChildren(n) /\ n.children = <<>>))

\* /^[ \t]*((\r?\n|\r)[\t ]*){2,}$/ on the value of a white space node.
NewLineMulti(v) ==
  /\ \A k \in 1..Len(v) : v[k] \in {" ", "\t", "\r", NL}
  /\ CountNewlines(v, 1) >= 2

\* The tree the parser of retext-english builds for the text s: sentences
\* are cut after terminal markers and joined again by the plugins of
\* parse-english and parse-latin, in their order. english and latin are the
\* words, in lower case, that the abbreviation tables of the two hold.
Parse(s, english, latin) ==
  LET cutS(ch) == [k \in 1..Len(ch) |->
                     ch[k].type = "PunctuationNode" /\ TerminalMarker(toString(ch[k]))]
      cutP(ch) == [k \in 1..Len(ch) |->
                     ch[k].type = "WhiteSpaceNode" /\ NewLineMulti(toString(ch[k]))]
      tokens == SentenceChildren(s)
      s1 == SplitNode(tokens, "SentenceNode", cutS(tokens))
      s2 == mergePrefixExceptions(s1, 1, english)
      s3 == mergeNonWordSentences(s2, 1)
      s4 == mergeAffixSymbol(s3, 1)
      s5 == mergeInitialLowerCaseLetterSentences(s4, 1)
      s6 == mergeInitialDigitSentences(s5, 1)
      s7 == mergePrefixExceptions(s6, 1, latin)
      s8 == mergeAffixExceptions(s7, 1)
      s9 == mergeRemainingFullStops(s8)
      s10 == makeInitialWhiteSpaceSiblings(s9, 1)
      s11 == makeFinalWhiteSpaceSiblings(s10, 1)
      s12 == breakImplicitSentences(s11, 1)
      s13 == removeEmptyNodes(s12)
      p1 == SplitNode(s13, "ParagraphNode", cutP(s13))
      p2 == makeInitialWhiteSpaceSiblings(p1, 1)
      p3 == makeFinalWhiteSpaceSiblings(p2, 1)
  IN Branch("RootNode", removeEmptyNodes(p3))

\* The words of s, in lower case, that stand right before a full stop: the
\* words the abbreviation tables are asked about.
Abbreviations(s) ==
  LET ch == SentenceChildren(s)
  IN { LowerText(toString(ch[k])) :
         k \in { j \in 1..(Len(ch) - 1) :
                   ch[j].type = "WordNode" /\ toString(ch[j + 1]) = <<".">> } }

\* The trees processor.parse can build for s. The abbreviation tables are
\* data of parse-english and parse-latin: for each word asked about, either
\* answer is taken.
Parses(s) ==
  { Parse(s, e, l) : e \in SUBSET Abbreviations(s), l \in SUBSET Abbreviations(s) }

\* The visitor of retextCapitalizeSentences on the first word node of the
\* sentence: found says whether node holds a word node, node is the node
\* after the visit.
RECURSIVE FirstWordVisited(_)
FirstWordVisited(node) ==
  IF node.type = "WordNode"
  THEN [ found |-> TRUE,
         node |->
           IF /\ Len(node.children) > 0
              /\ node.children[1].type = "TextNode"
              /\ node.children[1].value # <<>>
              /\ node.children[1].value[1] = ToLowerCase(node.children[1].value[1])
           THEN [node EXCEPT !.children[1].value[1] = ToUpperCase(@)]
           ELSE node ]
  ELSE LET RECURSIVE F(_)
           F(k) ==
             IF k > Len(node.children) THEN [ found |-> FALSE, node |-> node ]
             ELSE LET r == FirstWordVisited(node.children[k])
                  IN IF r.found
                     THEN [ found |-> TRUE,
                            node |-> [node EXCEPT !.children[k] = r.node] ]
                     ELSE F(k + 1)
       IN F(1)

\* retextCapitalizeSentences: in every sentence node the first word node, in
\* the order of the tree, gets the first character of its first child in
\* upper case when that child is a text node; the visit of the sentence ends
\* there.
RECURSIVE retextCapitalizeSentences(_)
retextCapitalizeSentences(tree) ==
  LET node == IF tree.type = "SentenceNode" THEN FirstWordVisited(tree).node
              ELSE tree
  IN [node EXCEPT !.children =
        [k \in 1..Len(@) |-> retextCapitalizeSentences(@[k])]]

\* retextFixPronouns: a word node whose only child is the text node "i".
RECURSIVE retextFixPronouns(_)
retextFixPronouns(tree) ==
  LET node == IF /\ tree.type = "WordNode"
                 /\ Len(tree.children) = 1
                 /\ tree.children[1].type = "TextNode"
                 /\ tree.children[1].value = <<"i">>
              THEN [tree EXCEPT !.children[1].value = <<"I">>]
              ELSE tree
  IN [node EXCEPT !.children = [k \in 1..Len(@) |-> retextFixPronouns(@[k])]]

\* retext-smartypants treats a symbol node as it treats a punctuation node.
MarkType(c) ==
  IF NodeType(c) = "SymbolNode" THEN "PunctuationNode" ELSE NodeType(c)

\* The quotes method of retext-smartypants on the straight quotation mark at
\* position k of s, a node of its own: TRUE when it becomes an opening mark,
\* FALSE when it becomes a closing one. The neighbours are the nodes before
\* and after it; a punctuation node is a run of one character.
QuoteOpens(s, k) ==
  LET n == Len(s)
      hasPrev == k > 1
      hasNext == k < n
      prevT == IF hasPrev THEN MarkType(s[k - 1]) ELSE "none"
      nextT == IF hasNext THEN MarkType(s[k + 1]) ELSE "none"
      r1 == IF hasNext THEN RunOf(s, k + 1, {s[k + 1]}) ELSE 0
      nn == k + 1 + r1
      nnT == IF nextT = "PunctuationNode" /\ nn <= n THEN MarkType(s[nn]) ELSE "none"
      wordEnds(j) == j > n \/ MarkType(s[j]) # "WordNode"
  IN IF nextT = "PunctuationNode" /\ nn <= n /\ nnT # "WordNode" THEN FALSE
     ELSE IF /\ nextT = "PunctuationNode" /\ nn <= n /\ nnT = "WordNode"
             /\ s[k + 1] \in {"\"", "'"} /\ r1 = 1 THEN TRUE
     ELSE IF /\ k + 3 <= n /\ s[k + 1] \in DigitSet /\ s[k + 2] \in DigitSet
             /\ s[k + 3] = "s" /\ wordEnds(k + 4) THEN FALSE
     ELSE IF /\ hasPrev /\ hasNext
             /\ prevT \in {"WhiteSpaceNode", "PunctuationNode"}
             /\ nextT = "WordNode" THEN TRUE
     ELSE IF hasPrev /\ prevT = "WordNode" THEN FALSE
     ELSE IF \/ ~hasNext
             \/ nextT = "WhiteSpaceNode"
             \/ (s[k] = "'" /\ s[k + 1] = "s" /\ wordEnds(k + 2)) THEN FALSE
     ELSE TRUE

\* retext-smartypants with the options initRetextProcessor hands it (quotes,
\* dashes 'oldschool', ellipses; backticks left at its default, on), on the
\* text of the tree: every punctuation or symbol node, a run of one
\* character, is rewritten by its value.
\* Three hyphens become an em dash and two an en dash; three or more full
\* stops become an ellipsis; two backticks become an opening and two
\* apostrophes a closing double quotation mark; a quotation mark on its own
\* becomes a curly one, as QuoteOpens says, and makes a quotation mark right
\* after it an opening one when a word follows the two.
Smartypants(s, o) ==
  LET n == Len(s)
      curly(c, open) ==
        IF c = "\"" THEN (IF open THEN LDQ ELSE RDQ)
        ELSE (IF open THEN LSQ ELSE RSQ)
      both(k) ==
        /\ k + 2 <= n /\ s[k + 1] \in {"\"", "'"} /\ s[k + 1] # s[k]
        /\ RunOf(s, k + 1, {s[k + 1]}) = 1
        /\ MarkType(s[k + 2]) = "WordNode"
        /\ QuoteOpens(s, k)
      RECURSIVE F(_, _)
      F(k, acc) ==
        IF k > n THEN acc
        ELSE LET c == s[k]
                 r == RunOf(s, k, {c})
             IN IF MarkType(c) # "PunctuationNode" THEN F(k + 1, Append(acc, c))
                ELSE IF c = "-" /\ o.smartDashes /\ r = 3
                     THEN F(k + r, Append(acc, EMDASH))
                ELSE IF c = "-" /\ o.smartDashes /\ r = 2
                     THEN F(k + r, Append(acc, ENDASH))
                ELSE IF c = "." /\ o.smartEllipsis /\ r >= 3
                     THEN F(k + r, Append(acc, ELLIPSIS))
                ELSE IF c = BT /\ r = 2 THEN F(k + r, Append(acc, LDQ))
                ELSE IF c = "'" /\ r = 2 THEN F(k + r, Append(acc, RDQ))
                ELSE IF c \in {"\"", "'"} /\ r = 1 /\ o.smartQuotes
                     THEN IF both(k)
                          THEN F(k + 2, acc \o <<curly(c, TRUE), curly(s[k + 1], TRUE)>>)
                          ELSE F(k + 1, Append(acc, curly(c, QuoteOpens(s, k))))
                ELSE F(k + r, acc \o SubSeq(s, k, k + r - 1))
  IN IF o.smartQuotes \/ o.smartEllipsis \/ o.smartDashes THEN F(1, <<>>) ELSE s

\* String(await processor.process(trimmed)) for the tree the parser built:
\* the plugins run in the order initRetextProcessor adds them, and
\* retext-stringify writes the tree out.
Retext(tree, o) ==
  LET t1 == IF o.capitalizeSentences THEN retextCapitalizeSentences(tree) ELSE tree
      t2 == IF o.fixPronouns THEN retextFixPronouns(t1) ELSE t1
  IN Smartypants(toString(t2), o)

\* String(processed).trim(), then ensurePunctuation: the value a successful
\* NLP call contributes for one line when the parser built tree.
NlpLine(tree, o) ==
  LET r == Trim(Retext(tree, o))
  IN IF o.ensurePunctuation THEN ensurePunctuation(r) ELSE r

\* The values a successful NLP call can contribute for the line.
NlpLines(line, o) == { NlpLine(t, o) : t \in Parses(Trim(line)) }

\* The lines applyNLP passes through without a call (besides fence lines).
NlpSkips(line, inCode) ==
  LET trimmed == Trim(line)
  IN inCode \/ StartsStructural(trimmed) \/ trimmed = <<>>

\* ------------------------------------------------------------------ inputs
\* The lines input documents are made of.
LineKinds ==
  { <<>>,
    <<" ">>,
    <<"a">>,
    <<" ", " ", " ", " ", "b">>,
    <<BT, BT, BT>>,
    <<"#", " ", "c">>,
    <<"K", "e", "y", ":", " ", "v">>,
    <<"d", "/">>,
    <<"#">> }

\* The example inputs of the specification's testable properties:
\* "hello world\nmore text", "Status: In progress", "my-project/",
\* "this is a note".
SpecExamples ==
  { <<"h","e","l","l","o"," ","w","o","r","l","d",NL,"m","o","r","e"," ","t","e","x","t">>,
    <<"S","t","a","t","u","s",":"," ","I","n"," ","p","r","o","g","r","e","s","s">>,
    <<"m","y","-","p","r","o","j","e","c","t","/">>,
    <<"t","h","i","s"," ","i","s"," ","a"," ","n","o","t","e">> }

\* Lines of plain text: "this is a note", "ice, i, hi", "ok.", "see (x)".
PlainLines ==
  { <<"t","h","i","s"," ","i","s"," ","a"," ","n","o","t","e">>,
    <<"i","c","e",","," ","i",","," ","h","i">>,
    <<"o","k",".">>,
    <<"s","e","e"," ","(","x",")">> }

\* A line of three sentences: "Go on. Do it. Now".
SeveralSentences ==
  <<"G","o"," ","o","n","."," ","D","o"," ","i","t","."," ","N","o","w">>

\* Indented lines: "  x", "   x", "     x" (five spaces), a tab and a space
\* before "x", "  Key: v", "  d/", "  - y", "  * y".
IndentedLines ==
  { <<" ", " ", "x">>,
    <<" ", " ", " ", "x">>,
    <<" ", " ", " ", " ", " ", "x">>,
    <<"\t", " ", "x">>,
    <<" ", " ", "K", "e", "y", ":", " ", "v">>,
    <<" ", " ", "d", "/">>,
    <<" ", " ", "-", " ", "y">>,
    <<" ", " ", "*", " ", "y">> }

\* Texts with '#' inside or at the start of a line that is no heading:
\* "a # b\nc", "# a\n#x".
HashTexts ==
  { <<"a", " ", "#", " ", "b", NL, "c">>,
    <<"#", " ", "a", NL, "#", "x">> }

\* Lines with quotation marks, hyphens and full stops for the typography
\* of the NLP pass: say "hi", a -- b, a --- b, wait..., it's ok, 'a' b.
TypographyLines ==
  { <<"s","a","y"," ","\"","h","i","\"">>,
    <<"a"," ","-","-"," ","b">>,
    <<"a"," ","-","-","-"," ","b">>,
    <<"w","a","i","t",".",".",".">>,
    <<"i","t","'","s"," ","o","k">>,
    <<"'","a","'"," ","b">> }

\* Lines the parser cuts into sentences and words by its marks and its
\* tables: a. "b", _a i.e, a i_.
SentenceLines ==
  { <<"a","."," ","\"","b","\"">>,
    <<"_","a"," ","i",".","e">>,
    <<"a"," ","i","_">> }

\* Texts with carriage returns and with a character of the emoji class:
\* "# t\r\n  item\r\n", "# t\r\n  Key: v\r\n", "# a\r\nb", "# c\nAb: x\ry",
\* "# c\nAb: x",
\* "# c\nIMMEDIATE - a\rb:", "# c\nIMMEDIATE - a:", "# c\n" and U+2014 and
\* " x", the same with "\ry" after it, "# c\nmake x".
ReturnTexts ==
  { <<"#"," ","t","\r",NL," "," ","i","t","e","m","\r",NL>>,
    <<"#"," ","t","\r",NL," "," ","K","e","y",":"," ","v","\r",NL>>,
    <<"#"," ","a","\r",NL,"b">>,
    <<"#"," ","c",NL,"A","b",":"," ","x","\r","y">>,
    <<"#"," ","c",NL,"A","b",":"," ","x">>,
    <<"#"," ","c",NL,"I","M","M","E","D","I","A","T","E"," ","-"," ","a","\r","b",":">>,
    <<"#"," ","c",NL,"I","M","M","E","D","I","A","T","E"," ","-"," ","a",":">>,
    <<"#"," ","c",NL,"U+2014"," ","x">>,
    <<"#"," ","c",NL,"U+2014"," ","x","\r","y">>,
    <<"#"," ","c",NL,"m","a","k","e"," ","x">> }

Inputs ==
  { Join(ls) : ls \in UNION { [1..n -> LineKinds] : n \in 1..MaxLines } }
  \cup HashTexts
  \cup ReturnTexts
  \cup { <<"#", " ", "c", NL>> \o l : l \in TypographyLines }
  \cup SpecExamples
  \cup { <<"#", " ", "c", NL>> \o l : l \in PlainLines \cup {SeveralSentences} }
  \cup { <<"#", " ", "c", NL>> \o l : l \in SentenceLines }
  \cup IndentedLines
  \cup { <<"#", " ", "c", NL>> \o l : l \in IndentedLines }

\* The option settings an instance is constructed with.
OptionSets ==
  { defaultOptions,
    [defaultOptions EXCEPT !.preserveCodeBlocks = FALSE],
    [defaultOptions EXCEPT !.headerLevel = 2],
    [defaultOptions EXCEPT !.headerLevel = -1],
    [defaultOptions EXCEPT !.semanticBreaks = TRUE, !.wrapWidth = SmallWidth],
    [defaultOptions EXCEPT !.detectFolders = FALSE, !.detectLists = FALSE,
                           !.detectLabels = FALSE, !.firstLineTitle = FALSE,
                           !.collapseBlankLines = FALSE, !.nlp = FALSE,
                           !.capitalizeSentences = FALSE, !.fixPronouns = FALSE,
                           !.ensurePunctuation = FALSE] }

\* ------------------------------------------------------------------- state
VARIABLES
  opts,       \* this.options of the TextProcessor
  mode,       \* the method the caller invoked: processSync, process, cleanup,
              \* format
  input,      \* the text it was called with
  pc,         \* where the call is
  text,       \* result, the text handed from one stage to the next
  lines,      \* the lines the running loop scans
  idx,        \* the loop's position in lines
  ctx,        \* detectStructure's locals
  nlpInCode,  \* applyNLP's inCodeBlock
  nlpResult,  \* applyNLP's result
  inflight,   \* the lines with an NLP call pending
  issued,     \* the lines NLP calls were made for, in call order
  failed,     \* the lines whose NLP call threw
  out,        \* the value returned to the caller
  fctx,       \* the locals of the legacy AutoFormatter's format
  rules,      \* AutoFormatter.rules
  plugins,    \* AutoFormatter.plugins
  fmtOptions, \* AutoFormatter.options
  thrown,     \* what the last registerPlugin call threw
  log,        \* the arguments of the registerPlugin calls made, in call order
  shared,     \* the arrays other names hold: the module's defaultRules and
              \* the rules of a second AutoFormatter
  disk,       \* the file system: what each path is and holds
  batch,      \* the locals of a formatFiles call and of its formatFile call
  cli,        \* the locals of main
  loader,     \* the locals of a loadPlugins call
  returned,   \* the texts of the calls that returned, in call order
  nuclear     \* the locals of runNuclearMode

procVars == <<opts, mode, input, pc, text, lines, idx, ctx, nlpInCode,
              nlpResult, inflight, issued, failed, out, fctx>>
regVars == <<rules, plugins, fmtOptions, thrown, log, shared>>
envVars == <<disk, batch, cli, loader>>
sessVars == <<returned, nuclear>>
vars == <<procVars, regVars, envVars, sessVars>>


\* ---------------------------------------------------------- rule registry
\* A rule object: its name, its pattern, and those of the properties
\* isFirstLine, isMultiLine and contextCheck that are set on it.
Rule(n, p) == [name |-> n, pattern |-> p, flags |-> {}]
RuleWith(n, p, f) == [name |-> n, pattern |-> p, flags |-> f]

defaultRules ==
  << Rule("numbered-sections", "^(\\d+)\\.\\s+(.+)$"),
     Rule("emoji-section-headers", "^([emoji]\\s+)(.+)$"),
     Rule("colon-labels",
          "^(Issue|Impact|Fix|Gap|Recommendation|Enhancement|Security Risk):\\s*(.*)$"),
     Rule("file-paths", "\\b([a-z_][a-z0-9_-]*/[a-z_][a-z0-9_-]*(?:/[a-z0-9_.-]+)*(?:\\.[a-z]+)?)\\b"),
     RuleWith("first-line-title", "^([^#].+)$", {"isFirstLine"}),
     Rule("multiple-blank-lines", "\\n{3,}"),
     Rule("ordered-lists", "^(\\d+)\\.\\s+(.+)$"),
     Rule("unordered-lists", "^[-*]\\s+(.+)$"),
     Rule("priority-labels",
          "^(IMMEDIATE|HIGH PRIORITY|MEDIUM PRIORITY|LOW PRIORITY)(\\s*-\\s*.+):$"),
     Rule("command-inline-code", "^(make\\s+\\w+|go\\s+mod\\s+\\w+|npm ...|git ...)$"),
     RuleWith("list-items-after-colon", "^([A-Z][a-z][\\w\\s]+(?:\\([^)]+\\))?)$",
              {"contextCheck"}) >>

\* src/plugins/typography.js
typographyPlugin ==
  [ name |-> "smart-typography",
    rules |-> [ kind |-> "array",
                items |-> << Rule("em-dash", "(\\w)--(\\w)"),
                             Rule("arrows", "->"),
                             Rule("trademark", "\\(TM\\)"),
                             Rule("registered", "\\(R\\)"),
                             Rule("copyright", "\\(C\\)") >> ] ]

\* The object literal of src/autoformat-plugin-example.js (lines 13 to 101),
\* as a caller that copies it out of the file passes it to registerPlugin;
\* the file itself cannot be imported, see ImportRejects. Its third rule has
\* a built-in's name.
examplePlugin ==
  [ name |-> "example-plugin",
    rules |-> [ kind |-> "array",
                items |-> << Rule("jira-tickets", "\\b([A-Z]+-\\d+)\\b"),
                             Rule("github-issues", "#(\\d+)\\b"),
                             Rule("priority-labels", "^(PRIORITY|URGENT|BLOCKER):\\s*(.*)$"),
                             Rule("date-formatting", "\\b(\\d{1,2})/(\\d{1,2})/(\\d{4})\\b"),
                             Rule("email-links", "\\b([a-zA-Z0-9._%+-]+@[a-zA-Z0-9.-]+\\.[a-zA-Z]{2,})\\b"),
                             Rule("todo-checkboxes", "^TODO:\\s*(.+)$"),
                             Rule("done-checkboxes", "^DONE:\\s*(.+)$"),
                             Rule("code-inline", "\\b([a-z][a-zA-Z0-9]*)\\(\\)"),
                             Rule("version-numbers", "\\bv?(\\d+\\.\\d+\\.\\d+)\\b"),
                             Rule("status-badges", "\\[STATUS:\\s*(ACTIVE|DEPRECATED|BETA|STABLE)\\]") >> ] ]

\* What callers pass to registerPlugin: the two plugins of the repository, a
\* plugin that repeats a built-in rule (name and pattern), one with an empty
\* rules array, and objects whose rules field is absent or not an array.
PluginArgs ==
  { typographyPlugin,
    examplePlugin,
    [ name |-> "repeat", rules |-> [ kind |-> "array", items |-> <<defaultRules[1]>> ] ],
    [ name |-> "empty", rules |-> [ kind |-> "array", items |-> <<>> ] ],
    [ name |-> "no-rules", rules |-> [ kind |-> "undefined", items |-> <<>> ] ],
    [ name |-> "rules-object", rules |-> [ kind |-> "object", items |-> <<>> ] ] }

NoError == [type |-> "none", message |-> ""]

\* this.rules = defaultRules: the module's array and the arrays of the other
\* instances are the array this.rules names.
AliasesOfDefault == {"defaultRules", "otherRules"}

\* this.rules = [...defaultRules]: the names, besides this.rules, of the
\* array the instance pushes to. The constructor copies, so there is none.
Aliases == {}

\* The arrays of shared after this.rules.push(...items).
SharedAfterPush(items) ==
  [n \in DOMAIN shared |-> IF n \in Aliases THEN shared[n] \o items ELSE shared[n]]

\* registerPlugin that drops a rule whose name is already registered.
RegisterPluginDedup(p) ==
  /\ Len(log) < MaxRegs
  /\ log' = Append(log, p)
  /\ IF p.rules.kind # "array"
     THEN /\ thrown' = [type |-> "Error", message |-> "Plugin must have a rules array"]
          /\ UNCHANGED <<rules, plugins, shared>>
     ELSE /\ plugins' = Append(plugins, p)
          /\ rules' = rules \o
               SelectSeq(p.rules.items,
                         LAMBDA r : \A k \in 1..Len(rules) : rules[k].name # r.name)
          /\ shared' = SharedAfterPush(p.rules.items)
          /\ thrown' = NoError
  /\ UNCHANGED <<procVars, fmtOptions, envVars, sessVars>>

\* The body of registerPlugin(plugin): the test that throws, and the two
\* pushes.
Register(p) ==
  /\ log' = Append(log, p)
  /\ IF p.rules.kind # "array"
     THEN /\ thrown' = [type |-> "Error", message |-> "Plugin must have a rules array"]
          /\ UNCHANGED <<rules, plugins, shared>>
     ELSE /\ plugins' = Append(plugins, p)
          /\ rules' = rules \o p.rules.items
          /\ shared' = SharedAfterPush(p.rules.items)
          /\ thrown' = NoError

\* registerPlugin(plugin), called by the user of the instance.
RegisterPlugin(p) ==
  /\ Len(log) < MaxRegs
  /\ Register(p)
  /\ UNCHANGED <<procVars, fmtOptions, envVars, sessVars>>

\* ------------------------------------------- legacy AutoFormatter: patterns
\* What line.match(pattern) returns is modelled as the sequence of match[0],
\* match[1], ... and as the empty sequence for null.

\* /^(\d+)\.\s+(.+)$/
NumberedMatch(s) ==
  LET d == RunOf(s, 1, DigitSet)
      g == WsThenRest(s, d + 2)
  IN IF d >= 1 /\ d + 1 <= Len(s) /\ s[d + 1] = "." /\ g # 0
     THEN <<s, SubSeq(s, 1, d), SubSeq(s, g, Len(s))>>
     ELSE <<>>

\* The character class of the legacy emoji-section-headers pattern: the
\* UTF-16 code units of the emoji between the brackets (no u flag), the two
\* halves of a surrogate pair each on its own.
LegacyEmojiUnits ==
  { "U+26A0", "U+FE0F", "U+D83C", "U+D83D", "U+DCA1", "U+DCCB", "U+DD27",
    "U+DEA8", "U+DFAF", "U+DFD7" }

\* /^([emoji]\s+)(.+)$/
EmojiMatch(s) ==
  LET g == WsThenRest(s, 2)
  IN IF Len(s) >= 1 /\ s[1] \in LegacyEmojiUnits /\ g # 0
     THEN <<s, SubSeq(s, 1, g - 1), SubSeq(s, g, Len(s))>>
     ELSE <<>>

LabelWords ==
  { <<"I","s","s","u","e">>, <<"I","m","p","a","c","t">>, <<"F","i","x">>,
    <<"G","a","p">>,
    <<"R","e","c","o","m","m","e","n","d","a","t","i","o","n">>,
    <<"E","n","h","a","n","c","e","m","e","n","t">>,
    <<"S","e","c","u","r","i","t","y"," ","R","i","s","k">> }

\* /^(Issue|Impact|Fix|Gap|Recommendation|Enhancement|Security Risk):\s*(.*)$/
ColonLabelMatch(s) ==
  IF \E w \in LabelWords : StartsWith(s, w \o <<":">>)
  THEN LET w == CHOOSE x \in LabelWords : StartsWith(s, x \o <<":">>)
           p == Len(w) + 2
           rest == SubSeq(s, p + RunOf(s, p, WsSet), Len(s))
       IN IF AllDot(rest) THEN <<s, w, rest>> ELSE <<>>
  ELSE <<>>

\* \b between positions k and k + 1 of s.
WordBoundary(s, k) ==
  (k >= 1 /\ k <= Len(s) /\ s[k] \in WordSet)
    # (k + 1 >= 1 /\ k + 1 <= Len(s) /\ s[k + 1] \in WordSet)

\* \w at position k of s.
IsWordAt(s, k) == k >= 1 /\ k <= Len(s) /\ s[k] \in WordSet

PathHead == LetterSet \cup {"_"}
PathBody == LetterSet \cup DigitSet \cup {"_", "-"}
PathTail == PathBody \cup {"."}

\* The end positions of (?:\/[a-z0-9_.-]+)* continued after position b.
RECURSIVE PathSegments(_, _)
PathSegments(s, b) ==
  IF b + 1 <= Len(s) /\ s[b + 1] = "/" /\ RunOf(s, b + 2, PathTail) >= 1
  THEN LET e == b + 1 + RunOf(s, b + 2, PathTail)
       IN (b + 2)..e \cup PathSegments(s, e)
  ELSE {}

\* The positions where a match of the file-paths pattern that starts at p can
\* end, the two \b included.
PathEnds(s, p) ==
  LET s1 == p + 1 + RunOf(s, p + 1, PathBody)
      q == s1 + 1
      b2 == q + RunOf(s, q + 1, PathBody)
      ext == IF b2 + 1 <= Len(s) /\ s[b2 + 1] = "."
             THEN (b2 + 2)..(b2 + 1 + RunOf(s, b2 + 2, LetterSet)) ELSE {}
  IN IF /\ p <= Len(s) /\ s[p] \in PathHead
        /\ WordBoundary(s, p - 1)
        /\ s1 <= Len(s) /\ s[s1] = "/"
        /\ q <= Len(s) /\ s[q] \in PathHead
     THEN {e \in (q..b2) \cup ext \cup PathSegments(s, b2) : WordBoundary(s, e)}
     ELSE {}

Max(S) == CHOOSE x \in S : \A y \in S : y <= x
Min(S) == CHOOSE x \in S : \A y \in S : x <= y

\* /\b([a-z_][a-z0-9_-]*\/[a-z_][a-z0-9_-]*(?:\/[a-z0-9_.-]+)*(?:\.[a-z]+)?)\b/gi
\* The pattern is global: match returns the matched texts, and only the first
\* is read.
FilePathMatch(s) ==
  LET starts == {p \in 1..Len(s) : PathEnds(s, p) # {}}
  IN IF starts = {} THEN <<>>
     ELSE << SubSeq(s, Min(starts), Max(PathEnds(s, Min(starts)))) >>

\* /^([^#].+)$/
FirstLineMatch(s) ==
  IF Len(s) >= 2 /\ s[1] # "#" /\ AllDot(Tail(s)) THEN <<s, s>> ELSE <<>>

\* /\n{3,}/g
BlankLinesMatch(s) ==
  LET starts == {p \in 1..Len(s) : RunOf(s, p, {NL}) >= 3}
  IN IF starts = {} THEN <<>>
     ELSE << Repeat(NL, RunOf(s, Min(starts), {NL})) >>

\* /^[-*]\s+(.+)$/
UnorderedMatch(s) ==
  LET g == WsThenRest(s, 2)
  IN IF Len(s) >= 1 /\ s[1] \in {"-", "*"} /\ g # 0
     THEN <<s, SubSeq(s, g, Len(s))>>
     ELSE <<>>

\* /^(IMMEDIATE|HIGH PRIORITY|MEDIUM PRIORITY|LOW PRIORITY)(\s*-\s*.+):$/
PriorityMatch(s) ==
  IF \E p \in PriorityWords : StartsWith(s, p)
  THEN LET p == PriorityWordOf(s)
           body == SubSeq(s, Len(p) + 1, Len(s) - 1)
           w == LeadingWs(body)
           rest == SubSeq(body, w + 2, Len(body))
       IN IF /\ s[Len(s)] = ":"
             /\ Len(body) >= w + 2
             /\ body[w + 1] = "-"
             /\ \E j \in 0..(Len(rest) - 1) :
                  /\ \A k \in 1..j : IsWs(rest[k])
                  /\ AllDot(SubSeq(rest, j + 1, Len(rest)))
          THEN <<s, p, body>>
          ELSE <<>>
  ELSE <<>>

\* /^(make\s+\w+|go\s+mod\s+\w+|npm\s+(?:install|run|test|build)|...)$/
CommandMatch(s) ==
  IF s # <<>> /\ ~IsWs(s[1]) /\ ~IsWs(s[Len(s)]) /\ MatchesCommand(s)
  THEN <<s, s>> ELSE <<>>

\* /^([A-Z][a-z][\w\s]+(?:\([^)]+\))?)$/
ListItemMatch(s) ==
  LET e == 2 + RunOf(s, 3, WordSet \cup WsSet)
  IN IF /\ Len(s) >= 3 /\ s[1] \in UpperSet /\ s[2] \in LowerSet
        /\ e >= 3
        /\ \/ e = Len(s)
           \/ /\ e + 3 <= Len(s)
              /\ s[e + 1] = "(" /\ s[Len(s)] = ")"
              /\ \A j \in (e + 2)..(Len(s) - 1) : s[j] # ")"
     THEN <<s, s>>
     ELSE <<>>

\* ------------------------------------------ legacy AutoFormatter: plugins
\* U+2192, U+2122, U+00AE and U+00A9, each one character.
ARROW == "U+2192"
TRADEMARK == "U+2122"
REGISTERED == "U+00AE"
COPYRIGHT == "U+00A9"

typographyRules == typographyPlugin.rules.items
exampleRules == examplePlugin.rules.items

\* What a template literal puts for a value that is undefined.
UndefinedText == <<"u","n","d","e","f","i","n","e","d">>

\* match[i] inside a template literal, for the array m that match returned.
Interp(m, i) == IF i + 1 <= Len(m) THEN m[i + 1] ELSE UndefinedText

\* s has the text w at position k; the same with the letter case ignored.
HasAt(s, k, w) == k >= 1 /\ k + Len(w) - 1 <= Len(s) /\ SubSeq(s, k, k + Len(w) - 1) = w
HasAtNoCase(s, k, w) ==
  /\ k >= 1 /\ k + Len(w) - 1 <= Len(s)
  /\ \A j \in 1..Len(w) : ToUpperCase(s[k + j - 1]) = ToUpperCase(w[j])

IsDigitAt(s, k) == k >= 1 /\ k <= Len(s) /\ s[k] \in DigitSet

\* \d{1,2}\/ at position k of s: the number of digits taken, 0 when there is
\* no match.
DayOrMonth(s, k) ==
  IF IsDigitAt(s, k) /\ IsDigitAt(s, k + 1) /\ HasAt(s, k + 2, <<"/">>) THEN 2
  ELSE IF IsDigitAt(s, k) /\ HasAt(s, k + 1, <<"/">>) THEN 1
  ELSE 0

EmailLocal == LetterSet \cup DigitSet \cup {".", "_", "%", "+", "-"}
EmailDomain == LetterSet \cup DigitSet \cup {".", "-"}
StatusWords == { <<"A","C","T","I","V","E">>, <<"D","E","P","R","E","C","A","T","E","D">>, <<"B","E","T","A">>, <<"S","T","A","B","L","E">> }

\* The positions where [a-zA-Z0-9.-]+\.[a-zA-Z]{2,}\b can end when it starts
\* at position d of s.
DomainEnds(s, d) ==
  { p + RunOf(s, p + 1, LetterSet) :
      p \in { q \in (d + 1)..(d + RunOf(s, d, EmailDomain) - 1) :
                /\ s[q] = "."
                /\ RunOf(s, q + 1, LetterSet) >= 2
                /\ WordBoundary(s, q + RunOf(s, q + 1, LetterSet)) } }

\* The length of the match of a global plugin pattern that starts at position
\* k of s, 0 when there is none.
GlobalMatchLen(r, s, k) ==
  CASE r = typographyRules[1] ->
         IF IsWordAt(s, k) /\ HasAt(s, k + 1, <<"-", "-">>) /\ IsWordAt(s, k + 3)
         THEN 4 ELSE 0
    [] r = typographyRules[2] -> IF HasAt(s, k, <<"-", ">">>) THEN 2 ELSE 0
    [] r = typographyRules[3] -> IF HasAtNoCase(s, k, <<"(", "T", "M", ")">>) THEN 4 ELSE 0
    [] r = typographyRules[4] -> IF HasAtNoCase(s, k, <<"(", "R", ")">>) THEN 3 ELSE 0
    [] r = typographyRules[5] -> IF HasAtNoCase(s, k, <<"(", "C", ")">>) THEN 3 ELSE 0
    [] r = exampleRules[1] ->
         LET u == RunOf(s, k, UpperSet)
             d == RunOf(s, k + u + 1, DigitSet)
         IN IF /\ WordBoundary(s, k - 1) /\ u >= 1 /\ HasAt(s, k + u, <<"-">>)
               /\ d >= 1 /\ WordBoundary(s, k + u + d)
            THEN u + 1 + d ELSE 0
    [] r = exampleRules[2] ->
         LET d == RunOf(s, k + 1, DigitSet)
         IN IF s[k] = "#" /\ d >= 1 /\ WordBoundary(s, k + d) THEN 1 + d ELSE 0
    [] r = exampleRules[4] ->
         LET a == DayOrMonth(s, k)
             b == DayOrMonth(s, k + a + 1)
             y == k + a + b + 2
         IN IF /\ WordBoundary(s, k - 1) /\ a >= 1 /\ b >= 1
               /\ RunOf(s, y, DigitSet) = 4 /\ WordBoundary(s, y + 3)
            THEN a + b + 6 ELSE 0
    [] r = exampleRules[5] ->
         LET l == RunOf(s, k, EmailLocal)
             ends == DomainEnds(s, k + l + 1)
         IN IF /\ WordBoundary(s, k - 1) /\ l >= 1 /\ HasAt(s, k + l, <<"@">>)
               /\ ends # {}
            THEN Max(ends) - k + 1 ELSE 0
    [] r = exampleRules[8] ->
         LET n == RunOf(s, k + 1, LetterSet \cup DigitSet)
         IN IF /\ WordBoundary(s, k - 1) /\ s[k] \in LowerSet
               /\ HasAt(s, k + 1 + n, <<"(", ")">>)
            THEN n + 3 ELSE 0
    [] r = exampleRules[9] ->
         LET v == IF s[k] = "v" THEN 1 ELSE 0
             d1 == RunOf(s, k + v, DigitSet)
             d2 == RunOf(s, k + v + d1 + 1, DigitSet)
             d3 == RunOf(s, k + v + d1 + d2 + 2, DigitSet)
             n == v + d1 + d2 + d3 + 2
         IN IF /\ WordBoundary(s, k - 1)
               /\ d1 >= 1 /\ HasAt(s, k + v + d1, <<".">>)
               /\ d2 >= 1 /\ HasAt(s, k + v + d1 + d2 + 1, <<".">>)
               /\ d3 >= 1 /\ WordBoundary(s, k + n - 1)
            THEN n ELSE 0
    [] r = exampleRules[10] ->
         LET w == RunOf(s, k + 8, WsSet)
             hit == {x \in StatusWords : HasAtNoCase(s, k + 8 + w, x \o <<"]">>)}
         IN IF HasAtNoCase(s, k, <<"[","S","T","A","T","U","S",":">>) /\ hit # {}
            THEN 8 + w + Len(CHOOSE x \in hit : TRUE) + 1 ELSE 0

\* line.match(pattern) for a global pattern: the matched texts from left to
\* right, none overlapping another; the empty sequence for null.
GlobalMatch(r, s) ==
  LET RECURSIVE F(_, _)
      F(k, acc) ==
        IF k > Len(s) THEN acc
        ELSE LET n == GlobalMatchLen(r, s, k)
             IN IF n > 0 THEN F(k + n, Append(acc, SubSeq(s, k, k + n - 1)))
                ELSE F(k + 1, acc)
  IN F(1, <<>>)

PluginLabelWords == { <<"P","R","I","O","R","I","T","Y">>, <<"U","R","G","E","N","T">>, <<"B","L","O","C","K","E","R">> }

\* /^(PRIORITY|URGENT|BLOCKER):\s*(.*)$/
PluginLabelMatch(s) ==
  IF \E w \in PluginLabelWords : StartsWith(s, w \o <<":">>)
  THEN LET w == CHOOSE x \in PluginLabelWords : StartsWith(s, x \o <<":">>)
           p == Len(w) + 2
           rest == SubSeq(s, p + RunOf(s, p, WsSet), Len(s))
       IN IF AllDot(rest) THEN <<s, w, rest>> ELSE <<>>
  ELSE <<>>

\* /^TODO:\s*(.+)$/ and /^DONE:\s*(.+)$/, for the word given: the run of
\* whitespace gives its last character back when it reaches the end.
CheckboxMatch(s, word) ==
  LET p == Len(word) + 2
      w == RunOf(s, p, WsSet)
      g == IF p + w <= Len(s) THEN p + w ELSE Len(s)
  IN IF /\ StartsWith(s, word \o <<":">>)
        /\ (p + w <= Len(s) \/ w >= 1)
        /\ AllDot(SubSeq(s, g, Len(s)))
     THEN <<s, SubSeq(s, g, Len(s))>>
     ELSE <<>>

\* What a transform that throws stands for in the place of a line: the
\* TypeError of reading a property of undefined.
Thrown == <<"TypeError">>

\* The transform of the rule throws for the array m: date-formatting calls
\* padStart on match[1] and match[2], status-badges toUpperCase on match[1].
TransformThrows(r, m) ==
  \/ r = exampleRules[4] /\ Len(m) < 3
  \/ r = exampleRules[10] /\ Len(m) < 2

\* line.match(rule.pattern) for the rules of the two plugins.
PluginRuleMatch(r, line) ==
  CASE r = exampleRules[3] -> PluginLabelMatch(line)
    [] r = exampleRules[6] -> CheckboxMatch(line, <<"T","O","D","O">>)
    [] r = exampleRules[7] -> CheckboxMatch(line, <<"D","O","N","E">>)
    [] OTHER -> GlobalMatch(r, line)

\* rule.transform(match) for the rules of the two plugins.
PluginRuleTransform(r, m) ==
  CASE TransformThrows(r, m) -> Thrown
    [] r = typographyRules[1] -> Interp(m, 1) \o <<EMDASH>> \o Interp(m, 2)
    [] r = typographyRules[2] -> <<ARROW>>
    [] r = typographyRules[3] -> <<TRADEMARK>>
    [] r = typographyRules[4] -> <<REGISTERED>>
    [] r = typographyRules[5] -> <<COPYRIGHT>>
    [] r = exampleRules[1] ->
         <<"[">> \o m[1] \o <<"]","(","h","t","t","p","s",":","/","/","j","i","r","a",".","c","o","m","p","a","n","y",".","c","o","m","/","b","r","o","w","s","e","/">> \o m[1] \o <<")">>
    [] r = exampleRules[2] ->
         <<"[", "#">> \o Interp(m, 1) \o <<"]","(","h","t","t","p","s",":","/","/","g","i","t","h","u","b",".","c","o","m","/","y","o","u","r","o","r","g","/","y","o","u","r","r","e","p","o","/","i","s","s","u","e","s","/">>
         \o Interp(m, 1) \o <<")">>
    [] r = exampleRules[3] -> <<"*", "*">> \o m[2] \o <<":", "*", "*", " ">> \o m[3]
    [] r = exampleRules[4] /\ ~TransformThrows(r, m) ->
         Interp(m, 3) \o <<"-">> \o m[2] \o <<"-">> \o m[3]
    [] r = exampleRules[5] -> <<"[">> \o m[1] \o <<"]","(","m","a","i","l","t","o",":">> \o m[1] \o <<")">>
    [] r = exampleRules[6] -> <<"-", " ", "[", " ", "]", " ">> \o m[2]
    [] r = exampleRules[7] -> <<"-", " ", "[", "x", "]", " ">> \o m[2]
    [] r = exampleRules[8] -> <<BT>> \o Interp(m, 1) \o <<"(", ")", BT>>
    [] r = exampleRules[9] -> <<"*", "*", "v">> \o Interp(m, 1) \o <<"*", "*">>
    [] r = exampleRules[10] /\ ~TransformThrows(r, m) ->
         UndefinedText \o <<" ", "*", "*">> \o [k \in 1..Len(m[2]) |-> ToUpperCase(m[2][k])]
         \o <<"*", "*">>

\* --------------------------------------------- legacy AutoFormatter: format
\* line.match(rule.pattern) for the rules of defaultRules and of the plugins.
RuleMatch(r, line) ==
  CASE r = defaultRules[1] -> NumberedMatch(line)
    [] r = defaultRules[2] -> EmojiMatch(line)
    [] r = defaultRules[3] -> ColonLabelMatch(line)
    [] r = defaultRules[4] -> FilePathMatch(line)
    [] r = defaultRules[5] -> FirstLineMatch(line)
    [] r = defaultRules[6] -> BlankLinesMatch(line)
    [] r = defaultRules[7] -> NumberedMatch(line)
    [] r = defaultRules[8] -> UnorderedMatch(line)
    [] r = defaultRules[9] -> PriorityMatch(line)
    [] r = defaultRules[10] -> CommandMatch(line)
    [] r = defaultRules[11] -> ListItemMatch(line)
    [] OTHER -> PluginRuleMatch(r, line)

\* rule.transform(match) for the rules of defaultRules and of the plugins.
RuleTransform(r, m) ==
  CASE r = defaultRules[1] -> <<"#", "#", "#", " ">> \o m[2] \o <<".", " ">> \o m[3]
    [] r = defaultRules[2] -> <<"#", "#", " ">> \o m[2] \o m[3]
    [] r = defaultRules[3] -> <<"*", "*">> \o m[2] \o <<":", "*", "*", " ">> \o m[3]
    [] r = defaultRules[4] -> <<BT>> \o m[1] \o <<BT>>
    [] r = defaultRules[5] -> <<"#", " ">> \o m[2]
    [] r = defaultRules[6] -> <<NL, NL>>
    [] r = defaultRules[7] -> m[2] \o <<".", " ">> \o m[3]
    [] r = defaultRules[8] -> <<"-", " ">> \o m[2]
    [] r = defaultRules[9] -> <<"*", "*">> \o m[2] \o <<"*", "*">> \o m[3] \o <<":">>
    [] r = defaultRules[10] -> <<BT>> \o m[1] \o <<BT>>
    [] r = defaultRules[11] -> <<"-", " ">> \o m[2]
    [] OTHER -> PluginRuleTransform(r, m)

\* The locals of format before its loop.
FormatInit ==
  [ formatted |-> <<>>, isFirstNonEmptyLine |-> TRUE, inCodeBlock |-> FALSE ]

\* this.rules.find(r => r.isFirstLine): its position, 0 when there is none.
FirstLineRule(rs) ==
  IF \E k \in 1..Len(rs) : "isFirstLine" \in rs[k].flags
  THEN Min({k \in 1..Len(rs) : "isFirstLine" \in rs[k].flags})
  ELSE 0

BoldListLabels ==
  { <<"*","*","R","e","c","o","m","m","e","n","d","a","t","i","o","n","*","*",":">>,
    <<"*","*","E","n","h","a","n","c","e","m","e","n","t","*","*",":">>,
    <<"*","*","A","d","d","*","*",":">> }

\* shouldBeList, from the last two lines emitted.
ShouldBeList(prevLine, prevPrevLine) ==
  \/ /\ prevLine # <<>>
     /\ \/ EndsWith(prevLine, <<":">>)
        \/ \E b \in BoldListLabels : Contains(prevLine, b)
        \/ StartsWith(Trim(prevLine), <<"-">>)
  \/ /\ prevPrevLine # <<>>
     /\ EndsWith(prevPrevLine, <<":">>)
     /\ StartsWith(Trim(prevLine), <<"-">>)

\* The two continue statements at the head of the loop over this.rules.
RuleSkipped(r, line, shouldBeList) ==
  \/ "isFirstLine" \in r.flags
  \/ "isMultiLine" \in r.flags
  \/ /\ "contextCheck" \in r.flags
     /\ \/ ~shouldBeList
        \/ Trim(line) = <<>>
        \/ StartsWith(Trim(line), <<"-">>)
        \/ StartsWith(Trim(line), <<"*", "*">>)

\* The loop over this.rules without its break: the last rule that is not
\* skipped and whose pattern matches transforms the line.
ApplyRulesLast(rs, k, line, shouldBeList) ==
  LET hits == {j \in k..Len(rs) : /\ ~RuleSkipped(rs[j], line, shouldBeList)
                                  /\ RuleMatch(rs[j], line) # <<>>}
  IN IF hits = {} THEN line
     ELSE RuleTransform(rs[Max(hits)], RuleMatch(rs[Max(hits)], line))

\* The loop over this.rules from rule k on: the first rule that is not
\* skipped and whose pattern matches transforms the line.
RECURSIVE ApplyRules(_, _, _, _)
ApplyRules(rs, k, line, shouldBeList) ==
  IF k > Len(rs) THEN line
  ELSE LET r == rs[k]
           trimmed == Trim(line)
       IN IF "isFirstLine" \in r.flags \/ "isMultiLine" \in r.flags
          THEN ApplyRules(rs, k + 1, line, shouldBeList)
          ELSE IF /\ "contextCheck" \in r.flags
                  /\ \/ ~shouldBeList
                     \/ trimmed = <<>>
                     \/ StartsWith(trimmed, <<"-">>)
                     \/ StartsWith(trimmed, <<"*", "*">>)
          THEN ApplyRules(rs, k + 1, line, shouldBeList)
          ELSE IF RuleMatch(r, line) # <<>>
          THEN RuleTransform(r, RuleMatch(r, line))
          ELSE ApplyRules(rs, k + 1, line, shouldBeList)

\* One iteration of the first pass of format, for lines[i + 1].
FormatLine(c, line, i, rs) ==
  LET push(x) == Append(c.formatted, x)
      f == FirstLineRule(rs)
      n == Len(c.formatted)
      prevLine == IF i > 0 THEN c.formatted[n] ELSE <<>>
      prevPrevLine == IF i > 1 THEN c.formatted[n - 1] ELSE <<>>
  IN
  IF StartsWith(Trim(line), Fence)
  THEN [c EXCEPT !.inCodeBlock = ~c.inCodeBlock, !.formatted = push(line)]
  ELSE IF c.inCodeBlock
  THEN [c EXCEPT !.formatted = push(line)]
  ELSE IF /\ c.isFirstNonEmptyLine /\ Trim(line) # <<>>
          /\ f # 0 /\ RuleMatch(rs[f], line) # <<>>
  THEN [c EXCEPT !.formatted = push(RuleTransform(rs[f], RuleMatch(rs[f], line))),
                 !.isFirstNonEmptyLine = FALSE]
  ELSE [c EXCEPT
          !.formatted = push(ApplyRules(rs, 1, line,
                                        ShouldBeList(prevLine, prevPrevLine))),
          !.isFirstNonEmptyLine = c.isFirstNonEmptyLine /\ Trim(line) = <<>>]

\* The locals after the first n lines.
RECURSIVE FormatScan(_, _, _)
FormatScan(ls, n, rs) ==
  IF n = 0 THEN FormatInit
  ELSE FormatLine(FormatScan(ls, n - 1, rs), ls[n], n - 1, rs)

\* The transform applied to line i throws.
LineThrows(c, line, i, rs) ==
  FormatLine(c, line, i, rs).formatted[Len(c.formatted) + 1] = Thrown

\* format(text) throws: the index of the first line whose transform throws,
\* 0 when none does.
RECURSIVE FirstThrow(_, _, _)
FirstThrow(ls, n, rs) ==
  IF n = 0 THEN 0
  ELSE IF FirstThrow(ls, n - 1, rs) # 0 THEN FirstThrow(ls, n - 1, rs)
  ELSE IF LineThrows(FormatScan(ls, n - 1, rs), ls[n], n - 1, rs) THEN n
  ELSE 0

FormatThrows(t, rs) == FirstThrow(Split(t), Len(Split(t)), rs) # 0

\* NaN and the numbers parseInt gives: NaN is the empty tuple, n is <<n>>.
NaN == <<>>
Num(n) == <<n>>

\* a < b and a > b for an integer a and b a number or NaN: a comparison
\* with NaN is false.
LessThan(a, b) == b # NaN /\ a < b[1]
GreaterThan(a, b) == b # NaN /\ a > b[1]

\* The options of a legacy AutoFormatter constructed without arguments;
\* wrapWidth is a number or NaN, as the command line may give it.
legacyOptions ==
  [ aggressive |-> TRUE, preserveCodeBlocks |-> TRUE, semanticBreaks |-> FALSE,
    smartQuotes |-> FALSE, ellipsis |-> FALSE, wrapWidth |-> Num(88) ]

\* line.split(/([.!?]+\s+)(?=[A-Z])/): the texts between the separators and
\* the separators, in order.
SentenceParts(s) ==
  LET RECURSIVE F(_, _, _)
      F(k, cur, acc) ==
        IF k > Len(s) THEN Append(acc, cur)
        ELSE LET pr == RunOf(s, k, {".", "!", "?"})
                 wr == RunOf(s, k + pr, WsSet)
                 e == k + pr + wr
             IN IF pr >= 1 /\ wr >= 1 /\ e <= Len(s) /\ s[e] \in UpperSet
                THEN F(e, <<>>, acc \o <<cur, SubSeq(s, k, e - 1)>>)
                ELSE F(k + 1, Append(cur, s[k]), acc)
  IN F(1, <<>>, <<>>)

\* The inner loop of applySemanticBreaks and the push after it.
WrapParts(parts, width) ==
  LET RECURSIVE F(_, _, _)
      F(k, currentLine, wrapped) ==
        IF k > Len(parts)
        THEN IF Trim(currentLine) # <<>>
             THEN Append(wrapped, Trim(currentLine)) ELSE wrapped
        ELSE IF /\ GreaterThan(Len(currentLine) + Len(parts[k]), width)
                /\ Len(currentLine) > 0
             THEN F(k + 1, parts[k], Append(wrapped, Trim(currentLine)))
             ELSE F(k + 1, currentLine \o parts[k], wrapped)
  IN Join(F(1, <<>>, <<>>))

applySemanticBreaks(t, o) ==
  IF ~o.semanticBreaks THEN t
  ELSE LET ls == Split(t)
           brk(line) ==
             LET trimmed == Trim(line)
             IN IF \/ StartsWith(trimmed, Fence)
                   \/ StartsWith(trimmed, <<"#">>)
                   \/ StartsWith(trimmed, <<"-">>)
                   \/ StartsWith(trimmed, <<"*">>)
                   \/ StartsWith(trimmed, <<">">>)
                   \/ LessThan(Len(line), o.wrapWidth)
                THEN line
                ELSE WrapParts(SentenceParts(line), o.wrapWidth)
       IN Join([k \in 1..Len(ls) |-> brk(ls[k])])

\* The first position after k where s has c, 0 when there is none.
RECURSIVE NextOf(_, _, _)
NextOf(s, k, c) ==
  IF k + 1 > Len(s) THEN 0
  ELSE IF s[k + 1] = c THEN k + 1 ELSE NextOf(s, k + 1, c)

DotsAt(s, k) == k + 2 <= Len(s) /\ SubSeq(s, k, k + 2) = <<".", ".", ".">>

\* The length of the match of a pattern of applySmartTypography that starts
\* at position k of s, 0 when there is none.
MatchLen(pat, s, k) ==
  CASE pat = "\"([^\"]+)\"" ->
         IF s[k] = "\"" /\ NextOf(s, k, "\"") >= k + 2
         THEN NextOf(s, k, "\"") - k + 1 ELSE 0
    [] pat = "\\b'([^']+)'\\b" ->
         IF /\ s[k] = "'" /\ IsWordAt(s, k - 1)
            /\ NextOf(s, k, "'") >= k + 2
            /\ IsWordAt(s, NextOf(s, k, "'") + 1)
         THEN NextOf(s, k, "'") - k + 1 ELSE 0
    [] pat = "(\\w)'(\\w)" ->
         IF IsWordAt(s, k) /\ k + 1 <= Len(s) /\ s[k + 1] = "'" /\ IsWordAt(s, k + 2)
         THEN 3 ELSE 0
    [] pat = "(\\w)\\.\\.\\.(\\w)" ->
         IF IsWordAt(s, k) /\ DotsAt(s, k + 1) /\ IsWordAt(s, k + 4) THEN 5 ELSE 0
    [] pat = "(\\w)\\.\\.\\." ->
         IF IsWordAt(s, k) /\ DotsAt(s, k + 1) THEN 4 ELSE 0
    [] pat = "\\.\\.\\.(\\w)" ->
         IF DotsAt(s, k) /\ IsWordAt(s, k + 3) THEN 4 ELSE 0

\* What replaces the match of n characters that starts at position k of s.
Replacement(pat, s, k, n) ==
  CASE pat = "\"([^\"]+)\"" -> <<LDQ>> \o SubSeq(s, k + 1, k + n - 2) \o <<RDQ>>
    [] pat = "\\b'([^']+)'\\b" -> <<LSQ>> \o SubSeq(s, k + 1, k + n - 2) \o <<RSQ>>
    [] pat = "(\\w)'(\\w)" -> <<s[k], RSQ, s[k + 2]>>
    [] pat = "(\\w)\\.\\.\\.(\\w)" -> <<s[k], ELLIPSIS, s[k + 4]>>
    [] pat = "(\\w)\\.\\.\\." -> <<s[k], ELLIPSIS>>
    [] pat = "\\.\\.\\.(\\w)" -> <<ELLIPSIS, s[k + 3]>>

\* s.replace(/pat/g, replacement): the matches are taken from left to right
\* and do not overlap.
ReplaceAll(s, pat) ==
  LET RECURSIVE F(_, _)
      F(k, acc) ==
        IF k > Len(s) THEN acc
        ELSE LET n == MatchLen(pat, s, k)
             IN IF n > 0 THEN F(k + n, acc \o Replacement(pat, s, k, n))
                ELSE F(k + 1, Append(acc, s[k]))
  IN F(1, <<>>)

\* The three replacements of the smart-quotes branch, on one line.
SmartQuotes(line) ==
  ReplaceAll(ReplaceAll(ReplaceAll(line, "\"([^\"]+)\""), "\\b'([^']+)'\\b"),
             "(\\w)'(\\w)")

\* The three replacements of the ellipsis branch, on one line.
SmartEllipsis(line) ==
  ReplaceAll(ReplaceAll(ReplaceAll(line, "(\\w)\\.\\.\\.(\\w)"), "(\\w)\\.\\.\\."),
             "\\.\\.\\.(\\w)")

\* A loop of applySmartTypography over the lines of t: the lines outside
\* fenced blocks are rewritten (for the quotes, but for those whose trimmed
\* text starts with a backtick); fence lines toggle inCodeBlock.
OutsideCode(t, quotes) ==
  LET ls == Split(t)
      RECURSIVE F(_, _, _)
      F(k, inCodeBlock, acc) ==
        IF k > Len(ls) THEN acc
        ELSE IF StartsWith(Trim(ls[k]), Fence)
             THEN F(k + 1, ~inCodeBlock, Append(acc, ls[k]))
        ELSE IF inCodeBlock \/ (quotes /\ StartsWith(Trim(ls[k]), <<BT>>))
             THEN F(k + 1, inCodeBlock, Append(acc, ls[k]))
        ELSE F(k + 1, inCodeBlock,
               Append(acc, IF quotes THEN SmartQuotes(ls[k]) ELSE SmartEllipsis(ls[k])))
  IN Join(F(1, FALSE, <<>>))

applySmartTypography(t, o) ==
  LET r1 == IF o.smartQuotes THEN OutsideCode(t, TRUE) ELSE t
  IN IF o.ellipsis THEN OutsideCode(r1, FALSE) ELSE r1

\* The second pass of format (no rule of the repository has isMultiLine set,
\* so the loop finds no rule to apply), and the third.
FormatFinish(formatted, o) ==
  LET r0 == Join(formatted)
      r1 == CollapseNewlines(r0)
      r2 == BlankBeforeHeadings(r1)
      r3 == BlankAfterHeadings(r2)
      r4 == TrimLineEnds(r3)
      r5 == applySemanticBreaks(r4, o)
      r6 == applySmartTypography(r5, o)
  IN Trim(r6) \o <<NL>>

\* format(text) of an instance with the rules rs and the options o.
format(t, rs, o) ==
  LET ls == Split(t) IN FormatFinish(FormatScan(ls, Len(ls), rs).formatted, o)


\* ------------------------------------------- legacy AutoFormatter: inputs
\* The option settings a legacy AutoFormatter is constructed with.
LegacyOptionSets ==
  { legacyOptions,
    [legacyOptions EXCEPT !.semanticBreaks = TRUE, !.smartQuotes = TRUE,
                          !.ellipsis = TRUE, !.wrapWidth = Num(SmallWidth)] }

\* Lines the rules of defaultRules and the typography passes act on:
\* "1. x", "- y", "Fix: z", "Add tests", "see a/b.c now", "npm test",
\* "LOW PRIORITY - q:", "Go on. Do it. Now", 'say "hi" it's...', "x'y'z".
LegacyLines ==
  { <<"1","."," ","x">>,
    <<"-"," ","y">>,
    <<"F","i","x",":"," ","z">>,
    <<"A","d","d"," ","t","e","s","t","s">>,
    <<"s","e","e"," ","a","/","b",".","c"," ","n","o","w">>,
    <<"n","p","m"," ","t","e","s","t">>,
    <<"L","O","W"," ","P","R","I","O","R","I","T","Y"," ","-"," ","q",":">>,
    <<"G","o"," ","o","n","."," ","D","o"," ","i","t","."," ","N","o","w">>,
    <<"s","a","y"," ","\"","h","i","\""," ","i","t","'","s",".",".",".">>,
    <<"x","'","y","'","z">> }

\* The texts format is called with: those of Inputs, and each line of
\* LegacyLines alone, under a heading and under a label.
\* "Add tests" as the third line, after "# c" and one of "Fix:",
\* "Recommendation:", "x:", "- y".
LabelTexts ==
  { <<"#", " ", "c", NL>> \o l \o <<NL, "A","d","d"," ","t","e","s","t","s">> :
      l \in { <<"F","i","x",":">>,
              <<"R","e","c","o","m","m","e","n","d","a","t","i","o","n",":">>,
              <<"x",":">>,
              <<"-"," ","y">> } }

LegacyInputs ==
  Inputs
  \cup LabelTexts
  \cup LegacyLines
  \cup { <<"#", " ", "c", NL>> \o l : l \in LegacyLines }
  \cup { <<"F", "i", "x", ":", NL>> \o l : l \in LegacyLines }

\* Lines the rules of the two plugins act on: "word--word", "A -> B",
\* "Copyright (C) 2024", "a--b c--d e--f", "x (TM) (R)", "due 1/2/2024",
\* "see ABC-12", "[STATUS: BETA]", "TODO: x", "plain".
PluginLines ==
  { <<"w","o","r","d","-","-","w","o","r","d">>,
    <<"A"," ","-",">"," ","B">>,
    <<"C","o","p","y","r","i","g","h","t"," ","(","C",")"," ","2","0","2","4">>,
    <<"a","-","-","b"," ","c","-","-","d"," ","e","-","-","f">>,
    <<"x"," ","(","T","M",")"," ","(","R",")">>,
    <<"d","u","e"," ","1","/","2","/","2","0","2","4">>,
    <<"s","e","e"," ","A","B","C","-","1","2">>,
    <<"[","S","T","A","T","U","S",":"," ","B","E","T","A","]">>,
    <<"T","O","D","O",":"," ","x">>,
    <<"p","l","a","i","n">> }

\* The texts format is called with once plugins are registered: each line of
\* PluginLines alone, under a heading, and as the last of three lines.
PluginInputs ==
  PluginLines
  \cup { <<"#", " ", "c", NL>> \o l : l \in PluginLines }
  \cup { <<"#", " ", "c", NL, "o", "k", NL>> \o l : l \in PluginLines }

\* ------------------------------------------------------ files and batches
\* Paths: "file.txt", "d.txt", "ro.txt" and the directory "my-plugins" in
\* the working directory, written "./my-plugins" on the command line, with
\* "a.txt" and "typography.js" in it; the directory "/p" with "a.txt" and
\* the plugin files "typography.js", "broken.js" and "zexample.js"; "2" and
\* "100" name nothing on the disk.
FileTxt == <<"f","i","l","e",".","t","x","t">>
DatesTxt == <<"d",".","t","x","t">>
ReadOnlyTxt == <<"r","o",".","t","x","t">>
MyPlugins == <<"m","y","-","p","l","u","g","i","n","s">>
PluginsDir == <<".","/">> \o MyPlugins
AbsPluginsDir == <<"/","p">>
ATxt == <<"a",".","t","x","t">>
TypographyJs == <<"t","y","p","o","g","r","a","p","h","y",".","j","s">>
BrokenJs == <<"b","r","o","k","e","n",".","j","s">>
ExampleJs == <<"z","e","x","a","m","p","l","e",".","j","s">>
Two == <<"2">>
Hundred == <<"1","0","0">>

\* path.normalize on the paths written here: a leading "./" is dropped.
Normalize(p) == IF StartsWith(p, <<".","/">>) /\ Len(p) > 2 THEN Slice(p, 2) ELSE p

\* path.join(a, b)
PathJoin(a, b) == Normalize(a \o <<"/">> \o b)

\* The disk the calls run on, by normalized path: two writable files (the
\* rules of autoformat-plugin-example.js throw on the second one's text), a
\* file that cannot be written, and two directories with their files. The
\* text of a plugin file is not held: no call reads one as text.
InitialDisk ==
  LET File(c, w) == [kind |-> "file", content |-> c, writable |-> w]
      Dir == [kind |-> "dir", content |-> <<>>, writable |-> FALSE]
  IN [ p \in { FileTxt, DatesTxt, ReadOnlyTxt, MyPlugins,
               PathJoin(MyPlugins, ATxt), PathJoin(MyPlugins, TypographyJs),
               AbsPluginsDir, PathJoin(AbsPluginsDir, ATxt),
               PathJoin(AbsPluginsDir, TypographyJs),
               PathJoin(AbsPluginsDir, BrokenJs),
               PathJoin(AbsPluginsDir, ExampleJs) } |->
         CASE p = FileTxt -> File(<<"1","."," ","x">>, TRUE)
           [] p = DatesTxt ->
                File(<<"#"," ","c",NL,"d","u","e"," ","1","/","2","/","2","0","2","4">>,
                     TRUE)
           [] p = ReadOnlyTxt -> File(<<"-"," ","y">>, FALSE)
           [] p = PathJoin(MyPlugins, ATxt) -> File(<<"a","b">>, TRUE)
           [] p = PathJoin(AbsPluginsDir, ATxt) ->
                File(<<"#"," ","c",NL,"A"," ","-",">"," ","B">>, TRUE)
           [] p \in {MyPlugins, AbsPluginsDir} -> Dir
           [] OTHER -> File(<<>>, TRUE) ]

\* fs.stat(path): what the path names.
Stat(d, path) ==
  IF Normalize(path) \in DOMAIN d THEN d[Normalize(path)].kind ELSE "none"

\* The message of the error fs.readFile(path) rejects with; "" when it
\* resolves.
ReadError(d, path) ==
  CASE Stat(d, path) = "file" -> ""
    [] Stat(d, path) = "dir" -> "EISDIR"
    [] OTHER -> "ENOENT"

\* The message of the error fs.writeFile(path) rejects with; "" when it
\* resolves.
WriteError(d, path) ==
  CASE Stat(d, path) = "dir" -> "EISDIR"
    [] Stat(d, path) = "file" /\ ~d[Normalize(path)].writable -> "EACCES"
    [] OTHER -> ""

\* The text fs.readFile(path) resolves with.
ReadFile(d, path) == d[Normalize(path)].content

\* The disk after fs.writeFile(path, content) resolved.
WriteFile(d, path, content) == [d EXCEPT ![Normalize(path)].content = content]

\* The file lists formatFiles is called with.
BatchLists ==
  UNION { [1..n -> {FileTxt, DatesTxt, ReadOnlyTxt, Two}] : n \in 0..MaxFiles }

\* What formatFile returns: { success: true, formatted } and
\* { success: false, error }.
Succeeded(formatted) == [success |-> TRUE, formatted |-> formatted, error |-> ""]
Failed(message) == [success |-> FALSE, formatted |-> <<>>, error |-> message]

\* formatFile without its catch clause: a failure rejects the call.
AfterFormatFileUncaught(res) == IF res.success THEN "push" ELSE "rejected"

\* Where formatFiles is once formatFile settled with res: formatFile catches
\* every error, so the loop goes on with results.push.
AfterFormatFile(res) == "push"

BatchIdle ==
  [ pc |-> "idle", files |-> <<>>, write |-> FALSE, i |-> 0, content |-> <<>>,
    cur |-> Failed(""), results |-> <<>>, written |-> <<>> ]

\* ------------------------------------------------------------ the pipeline
ProcIdle ==
  /\ mode = "none" /\ input = <<>> /\ pc = "idle" /\ text = <<>>
  /\ lines = <<>> /\ idx = 0 /\ ctx = DetectInit /\ nlpInCode = FALSE
  /\ nlpResult = <<>> /\ inflight = {} /\ issued = <<>> /\ failed = {}
  /\ out = <<>> /\ fctx = FormatInit

RegInit ==
  /\ rules = defaultRules /\ plugins = <<>> /\ thrown = NoError /\ log = <<>>
  /\ shared = [defaultRules |-> defaultRules, otherRules |-> defaultRules]

\* ------------------------------------------------------------------ main
\* Command-line arguments, as texts.
Draft == <<"d","r","a","f","t">>
Autoformat == <<"a","u","t","o","f","o","r","m","a","t">>
OptHeaderLevel == <<"-","-","h","e","a","d","e","r","-","l","e","v","e","l">>
OptWidth == <<"-","-","w","i","d","t","h">>
OptPlugins == <<"-","-","p","l","u","g","i","n","s">>
OptGlob == <<"-","-","g","l","o","b">>
OptRecursive == <<"-","r">>
OptRecursiveLong == <<"-","-","r","e","c","u","r","s","i","v","e">>
OptQuiet == <<"-","-","q","u","i","e","t">>
OptQuietShort == <<"-","q">>
OptHelp == <<"-","-","h","e","l","p">>
OptHelpShort == <<"-","h">>
OptVersion == <<"-","-","v","e","r","s","i","o","n">>
OptVersionShort == <<"-","v">>
OptAuto == <<"-","-","a","u","t","o">>
OptSemantic == <<"-","-","s","e","m","a","n","t","i","c">>
OptSmartQuotes == <<"-","-","s","m","a","r","t","-","q","u","o","t","e","s">>
OptEllipsis == <<"-","-","e","l","l","i","p","s","i","s">>
Star == <<"*">>
StarStar == <<"*","*","/","*">>

\* null and undefined, where the code only tests them for truth.
Null == <<>>

DigitValue(c) ==
  CHOOSE d \in 0..9 : <<"0","1","2","3","4","5","6","7","8","9">>[d + 1] = c

\* parseInt(s, 10)
ParseInt(s) ==
  LET t == TrimStart(s)
      sign == IF t # <<>> /\ t[1] \in {"+", "-"} THEN 1 ELSE 0
      n == RunOf(t, sign + 1, DigitSet)
      RECURSIVE V(_)
      V(k) == IF k = 0 THEN 0 ELSE 10 * V(k - 1) + DigitValue(t[sign + k])
  IN IF n = 0 THEN NaN
     ELSE IF t[1] = "-" THEN Num(0 - V(n)) ELSE Num(V(n))

\* array.indexOf(x), counted from 1; 0 for -1.
IndexOf(a, x) ==
  IF Includes(a, x) THEN Min({k \in 1..Len(a) : a[k] = x}) ELSE 0

\* array[k] for a k counted from 1; Null for undefined.
At(a, k) == IF k \in 1..Len(a) THEN a[k] ELSE Null

\* The value main reads for the option opt: commandArgs[indexOf(opt) + 1]
\* when opt is among the arguments and that element is truthy, Null otherwise.
OptionValue(commandArgs, opt) ==
  IF IndexOf(commandArgs, opt) # 0
  THEN At(commandArgs, IndexOf(commandArgs, opt) + 1)
  ELSE Null

\* commandArgs.filter(...): the arguments that do not start with "-" and are
\* not the glob pattern.
FileArgs(commandArgs, glob) ==
  SelectSeq(commandArgs,
            LAMBDA arg : /\ ~StartsWith(arg, <<"-", "-">>)
                         /\ ~StartsWith(arg, <<"-">>)
                         /\ arg # glob)

\* The texts after the command on the command lines main is run with.
CliTokens ==
  { OptHeaderLevel, OptWidth, OptPlugins, OptGlob, OptRecursive, OptAuto, Two,
    Hundred, FileTxt, PluginsDir, AbsPluginsDir, Star }

\* process.argv.slice(2): no argument at all, or draft or autoformat and up
\* to MaxArgs more.
CliArgLists ==
  { <<>> } \cup
  { <<c>> \o a : c \in {Draft, Autoformat},
                 a \in UNION { [1..n -> CliTokens] : n \in 0..MaxArgs } }

\* The extensions of the pattern main gives glob: **/*.{txt,md,mdx,mdc,mdd}.
TextExtensions ==
  { <<".","t","x","t">>, <<".","m","d">>, <<".","m","d","x">>,
    <<".","m","d","c">>, <<".","m","d","d">> }
TextFiles(d) ==
  {p \in DOMAIN d : d[p].kind = "file" /\ \E e \in TextExtensions : EndsWith(p, e)}

\* The paths glob writes for a search from the working directory: the
\* entries of the disk below it, files and directories.
Relative(d) == {p \in DOMAIN d : p[1] # "/"}

\* The lists that hold each path of S once, in any order: glob fixes none.
Arrangements(S) ==
  { f \in [1..Cardinality(S) -> S] : \A i, j \in DOMAIN f : i # j => f[i] # f[j] }

\* What glob resolves with for the pattern of all text files: the text files
\* below the working directory.
GlobAll(d) == Arrangements(TextFiles(d) \cap Relative(d))

\* What glob resolves with for a pattern of the command line: the entries,
\* files and directories, of the working directory for "*", all the entries
\* below it for "**/*", and for a pattern without a wildcard the entry it
\* names, when there is one.
GlobPattern(d, pattern) ==
  CASE pattern = Star -> Arrangements({p \in Relative(d) : ~Includes(p, "/")})
    [] pattern = StarStar -> Arrangements(Relative(d))
    [] OTHER -> Arrangements({p \in DOMAIN d : p = Normalize(pattern)})

\* What glob resolves with for path.join(dir, all text files): the text
\* files of the disk below dir, written as path.join writes the pattern.
GlobUnder(d, dir) ==
  Arrangements({p \in TextFiles(d) : StartsWith(p, PathJoin(dir, <<>>))})

\* What glob('*.js', { cwd: dir }) resolves with: the names of the .js files
\* of dir, none when dir is no directory.
JsFiles(d, dir) ==
  Arrangements({ name \in {TypographyJs, BrokenJs, ExampleJs} :
                   Stat(d, PathJoin(dir, name)) = "file" })

\* import(path) rejects: a path that does not start with "/" or "." is read
\* as the name of a package, and there is none of that name; a path that
\* names no file has nothing to load; and "zexample.js", the copy of
\* src/autoformat-plugin-example.js, does not parse: the block comment that
\* starts at its line 137 is closed by the "*/" inside its line 144, so its
\* line 145 is read as code and the import rejects with a SyntaxError.
ImportRejects(d, path) ==
  path[1] # "/" \/ Stat(d, path) # "file" \/ EndsWith(path, ExampleJs)

\* plugin.default || plugin for the module import(path) resolves with: the
\* default export of src/plugins/typography.js, and the namespace of a
\* module that exports neither default nor rules.
ImportedPlugin(path) ==
  CASE EndsWith(path, TypographyJs) -> typographyPlugin
    [] OTHER -> [ name |-> "broken", rules |-> [ kind |-> "undefined", items |-> <<>> ] ]

\* The directories loadPlugins is called with: "./my-plugins", "/p" and a
\* name that is no directory.
LoadDirs == {PluginsDir, AbsPluginsDir, Two}

LoaderIdle == [ pc |-> "idle", dir |-> <<>>, files |-> <<>>, i |-> 0 ]

\* The options main constructs the formatter with, merged into the defaults
\* of the legacy class: those of autoformat; draft passes roughDraft and
\* headerLevel, which the class never reads.
CliOptions(c) ==
  IF c.command = Autoformat
  THEN LET autoMode == Includes(c.commandArgs, OptAuto)
       IN [legacyOptions EXCEPT
             !.semanticBreaks = autoMode \/ Includes(c.commandArgs, OptSemantic),
             !.smartQuotes = autoMode \/ Includes(c.commandArgs, OptSmartQuotes),
             !.ellipsis = autoMode \/ Includes(c.commandArgs, OptEllipsis),
             !.wrapWidth = c.wrapWidth]
  ELSE legacyOptions

CliIdle ==
  [ pc |-> "idle", args |-> <<>>, command |-> Null, commandArgs |-> <<>>,
    quiet |-> FALSE, glob |-> Null, fileArgs |-> <<>>, recursive |-> FALSE,
    headerLevel |-> Num(3), wrapWidth |-> Num(88), pluginsDir |-> Null,
    files |-> <<>>, k |-> 0, exit |-> "" ]

\* ------------------------------------------------------- runNuclearMode
\* What processor.process(file) does for one file in processFiles: it
\* resolves without a message, resolves with lint messages, or rejects.
FileOutcomes == {"clean", "messages", "error"}

\* String(result) for a file that held content: remark is not part of the
\* repository, its output is the text as read or another text, here the text
\* with a line feed after it.
RemarkOutputs(content) == {content, content \o <<NL>>}

\* overallSuccess after the validation step.
AfterValidationKept(success, hasIssues) == success

AfterValidation(success, hasIssues) == IF hasIssues THEN FALSE ELSE success

\* What execSync of the eslint command does: it returns, it throws with
\* output that holds "error" or "warning", or it throws with other output.
EslintOutcomes == {"returned", "issues", "other"}

\* The lists runNuclearMode is called with: main hands it what getFiles
\* found, and returns before the call when that is empty.
NuclearFileLists ==
  UNION { [1..n -> {FileTxt, ReadOnlyTxt, Two}] : n \in 1..MaxFiles }

\* files.filter(file => !isFileIgnored(file, ignorePatterns)) for the
\* ignore patterns that make ignored the set of ignored files.
NotIgnored(files, ignored) ==
  LET RECURSIVE F(_)
      F(k) == IF k = 0 THEN <<>>
              ELSE IF files[k] \in ignored THEN F(k - 1)
              ELSE Append(F(k - 1), files[k])
  IN F(Len(files))

\* The locals of processFiles: the loop's index, where the iteration is,
\* hasErrors, processedCount, the file read and String(result).
ProcessFilesStart ==
  [ i |-> 1, at |-> "read", hasErrors |-> FALSE, processedCount |-> 0,
    content |-> <<>>, result |-> <<>> ]

NuclearIdle ==
  [ pc |-> "idle", files |-> <<>>, quiet |-> FALSE, hasEslint |-> FALSE,
    configPath |-> "", filteredFiles |-> <<>>, overallSuccess |-> TRUE,
    steps |-> <<>>, pf |-> ProcessFilesStart ]

EnvInit ==
  /\ disk = InitialDisk /\ batch = BatchIdle /\ cli = CliIdle
  /\ loader = LoaderIdle
  /\ returned = <<>> /\ nuclear = NuclearIdle

\* detectStructure(text) starts with the locals the last call left.
BeginKeepContext(m, x) ==
  /\ mode' = m /\ input' = x
  /\ pc' = "detect" /\ lines' = Split(x) /\ idx' = 1
  /\ UNCHANGED <<opts, text, ctx, nlpInCode, nlpResult, inflight, issued, failed, out>>
  /\ UNCHANGED <<fctx, regVars, envVars, sessVars>>

\* detectStructure(text) starts: step 1 of process and of processSync.
Begin(m, x) ==
  /\ mode' = m /\ input' = x
  /\ pc' = "detect" /\ lines' = Split(x) /\ idx' = 1 /\ ctx' = DetectInit
  /\ UNCHANGED <<opts, text, nlpInCode, nlpResult, inflight, issued, failed, out>>
  /\ UNCHANGED <<fctx, regVars, envVars, sessVars>>

\* processor.processSync(x)
CallProcessSync == pc = "idle" /\ \E x \in Inputs : Begin("processSync", x)

\* processor.process(x)
CallProcess == pc = "idle" /\ \E x \in Inputs : Begin("process", x)

\* processor.cleanup(x), called on its own.
CallCleanup ==
  /\ pc = "idle"
  /\ opts = defaultOptions
  /\ \E x \in Inputs : input' = x /\ text' = x
  /\ mode' = "cleanup" /\ pc' = "cleanup"
  /\ UNCHANGED <<opts, lines, idx, ctx, nlpInCode, nlpResult, inflight, issued,
                 failed, out>>
  /\ UNCHANGED <<fctx, regVars, envVars, sessVars>>

\* One iteration of detectStructure's loop. When repeat throws, nothing
\* catches it: processSync throws, process rejects.
DetectStep ==
  /\ pc = "detect" /\ idx <= Len(lines)
  /\ IF DetectLineThrows(ctx, lines[idx], opts)
     THEN pc' = "threw" /\ UNCHANGED <<ctx, idx>>
     ELSE /\ ctx' = DetectLine(ctx, lines[idx], opts)
          /\ idx' = idx + 1
          /\ UNCHANGED pc
  /\ UNCHANGED <<opts, mode, input, text, lines, nlpInCode, nlpResult,
                 inflight, issued, failed, out>>
  /\ UNCHANGED <<fctx, regVars, envVars, sessVars>>

\* detectStructure returns processed.join; the caller goes on to its step 2.
DetectReturn ==
  /\ pc = "detect" /\ idx > Len(lines)
  /\ text' = Join(ctx.processed)
  /\ IF mode = "processSync"
     THEN pc' = "basic" /\ UNCHANGED <<lines, idx>>
     ELSE IF opts.nlp
     THEN pc' = "nlp" /\ lines' = Split(Join(ctx.processed)) /\ idx' = 1
     ELSE pc' = "cleanup" /\ UNCHANGED <<lines, idx>>
  /\ IF mode # "processSync" /\ opts.nlp
     THEN nlpInCode' = FALSE /\ nlpResult' = <<>> /\ issued' = <<>> /\ failed' = {}
     ELSE UNCHANGED <<nlpInCode, nlpResult, issued, failed>>
  /\ UNCHANGED <<opts, mode, input, ctx, inflight, out>>
  /\ UNCHANGED <<fctx, regVars, envVars, sessVars>>

BasicCleanup ==
  /\ pc = "basic"
  /\ text' = basicCleanup(text, opts)
  /\ pc' = "cleanup"
  /\ UNCHANGED <<opts, mode, input, lines, idx, ctx, nlpInCode, nlpResult,
                 inflight, issued, failed, out>>
  /\ UNCHANGED <<fctx, regVars, envVars, sessVars>>

\* An iteration of applyNLP's loop that makes no NLP call.
NlpPass ==
  /\ pc = "nlp" /\ idx <= Len(lines)
  /\ LET line == lines[idx]
     IN IF IsFenceLine(line)
        THEN nlpInCode' = ~nlpInCode
        ELSE NlpSkips(line, nlpInCode) /\ UNCHANGED nlpInCode
  /\ nlpResult' = Append(nlpResult, lines[idx])
  /\ idx' = idx + 1
  /\ UNCHANGED <<opts, mode, input, pc, text, lines, ctx, inflight, issued,
                 failed, out>>
  /\ UNCHANGED <<fctx, regVars, envVars, sessVars>>

\* The call is made and the loop goes on to the next line without awaiting it.
NlpIssueNoAwait ==
  /\ pc = "nlp" /\ idx <= Len(lines)
  /\ ~IsFenceLine(lines[idx]) /\ ~NlpSkips(lines[idx], nlpInCode)
  /\ inflight' = inflight \cup {idx}
  /\ issued' = Append(issued, idx)
  /\ idx' = idx + 1
  /\ UNCHANGED <<opts, mode, input, pc, text, lines, ctx, nlpInCode, nlpResult,
                 failed, out>>
  /\ UNCHANGED <<fctx, regVars, envVars, sessVars>>

\* await processor.process(trimmed): the call is made and the loop suspends.
NlpIssue ==
  /\ pc = "nlp" /\ idx <= Len(lines)
  /\ ~IsFenceLine(lines[idx]) /\ ~NlpSkips(lines[idx], nlpInCode)
  /\ inflight' = inflight \cup {idx}
  /\ issued' = Append(issued, idx)
  /\ pc' = "await"
  /\ UNCHANGED <<opts, mode, input, text, lines, idx, ctx, nlpInCode, nlpResult,
                 failed, out>>
  /\ UNCHANGED <<fctx, regVars, envVars, sessVars>>

\* The call resolves: the try block pushes the processed line.
NlpResolve ==
  /\ pc = "await"
  /\ \E k \in inflight :
       /\ inflight' = inflight \ {k}
       /\ \E r \in NlpLines(lines[k], opts) : nlpResult' = Append(nlpResult, r)
  /\ idx' = idx + 1
  /\ pc' = "nlp"
  /\ UNCHANGED <<opts, mode, input, text, lines, ctx, nlpInCode, issued, failed, out>>
  /\ UNCHANGED <<fctx, regVars, envVars, sessVars>>

\* The call throws and nothing catches it: process rejects.
NlpRejectPropagates ==
  /\ pc = "await"
  /\ \E k \in inflight :
       /\ inflight' = inflight \ {k}
       /\ failed' = failed \cup {k}
  /\ pc' = "rejected"
  /\ UNCHANGED <<opts, mode, input, text, lines, idx, ctx, nlpInCode, nlpResult,
                 issued, out>>
  /\ UNCHANGED <<fctx, regVars, envVars, sessVars>>

\* The call throws: the catch block pushes the line as it was.
NlpReject ==
  /\ pc = "await"
  /\ \E k \in inflight :
       /\ inflight' = inflight \ {k}
       /\ failed' = failed \cup {k}
       /\ nlpResult' = Append(nlpResult, lines[k])
  /\ idx' = idx + 1
  /\ pc' = "nlp"
  /\ UNCHANGED <<opts, mode, input, text, lines, ctx, nlpInCode, issued, out>>
  /\ UNCHANGED <<fctx, regVars, envVars, sessVars>>

\* applyNLP returns result.join.
NlpReturn ==
  /\ pc = "nlp" /\ idx > Len(lines)
  /\ text' = Join(nlpResult)
  /\ pc' = "cleanup"
  /\ UNCHANGED <<opts, mode, input, lines, idx, ctx, nlpInCode, nlpResult,
                 inflight, issued, failed, out>>
  /\ UNCHANGED <<fctx, regVars, envVars, sessVars>>

\* formatter.format(x) starts its first pass.
CallFormat ==
  /\ pc = "idle"
  /\ \E x \in LegacyInputs : input' = x /\ lines' = Split(x)
  /\ mode' = "format" /\ pc' = "format" /\ idx' = 1 /\ fctx' = FormatInit
  /\ UNCHANGED <<opts, text, ctx, nlpInCode, nlpResult, inflight, issued,
                 failed, out>>
  /\ UNCHANGED <<regVars, envVars, sessVars>>

\* formatter.format(x) on a text of PluginInputs.
CallFormatPlugin ==
  /\ pc = "idle"
  /\ \E x \in PluginInputs : input' = x /\ lines' = Split(x)
  /\ mode' = "format" /\ pc' = "format" /\ idx' = 1 /\ fctx' = FormatInit
  /\ UNCHANGED <<opts, text, ctx, nlpInCode, nlpResult, inflight, issued,
                 failed, out>>
  /\ UNCHANGED <<regVars, envVars, sessVars>>

\* One iteration of the first pass of format. A transform that throws ends
\* the call: nothing is pushed and nothing is returned.
FormatStep ==
  /\ pc = "format" /\ idx <= Len(lines)
  /\ IF LineThrows(fctx, lines[idx], idx - 1, rules)
     THEN pc' = "threw" /\ UNCHANGED <<fctx, idx>>
     ELSE /\ fctx' = FormatLine(fctx, lines[idx], idx - 1, rules)
          /\ idx' = idx + 1
          /\ UNCHANGED pc
  /\ UNCHANGED <<opts, mode, input, text, lines, ctx, nlpInCode, nlpResult,
                 inflight, issued, failed, out>>
  /\ UNCHANGED <<regVars, envVars, sessVars>>

\* The second and third passes of format, and the return to the caller.
FormatReturn ==
  /\ pc = "format" /\ idx > Len(lines)
  /\ out' = FormatFinish(fctx.formatted, fmtOptions)
  /\ pc' = "done"
  /\ UNCHANGED <<opts, mode, input, text, lines, idx, ctx, nlpInCode, nlpResult,
                 inflight, issued, failed, fctx>>
  /\ UNCHANGED <<regVars, envVars, sessVars>>

\* formatter.formatFiles(files, { write }) starts.
CallFormatFiles ==
  /\ batch.pc = "idle"
  /\ \E fs \in BatchLists, w \in BOOLEAN :
       batch' = [BatchIdle EXCEPT !.pc = "loop", !.files = fs, !.write = w,
                                  !.i = 1]
  /\ UNCHANGED <<procVars, regVars, disk, cli, loader, sessVars>>

\* The loop takes the next file and formatFile awaits fs.readFile.
BatchReadFile ==
  /\ batch.pc = "loop" /\ batch.i <= Len(batch.files)
  /\ LET file == batch.files[batch.i]
         err == ReadError(disk, file)
     IN IF err = ""
        THEN batch' = [batch EXCEPT !.content = ReadFile(disk, file),
                                    !.pc = "format"]
        ELSE batch' = [batch EXCEPT !.cur = Failed(err),
                                    !.pc = AfterFormatFile(Failed(err))]
  /\ UNCHANGED <<procVars, regVars, disk, cli, loader, sessVars>>

\* formatFile goes on after the read: this.format(content), then the write
\* is started or the result returned.
BatchFormat ==
  /\ batch.pc = "format"
  /\ IF FormatThrows(batch.content, rules)
     THEN batch' = [batch EXCEPT !.cur = Failed("TypeError"),
                                 !.pc = AfterFormatFile(Failed("TypeError"))]
     ELSE LET res == Succeeded(format(batch.content, rules, fmtOptions))
          IN batch' = [batch EXCEPT !.cur = res,
                         !.pc = IF batch.write THEN "write"
                                ELSE AfterFormatFile(res)]
  /\ UNCHANGED <<procVars, regVars, disk, cli, loader, sessVars>>

\* formatFile awaits fs.writeFile(filePath, formatted) and returns.
BatchWriteFile ==
  /\ batch.pc = "write"
  /\ LET file == batch.files[batch.i]
         err == WriteError(disk, file)
     IN IF err = ""
        THEN /\ disk' = WriteFile(disk, file, batch.cur.formatted)
             /\ batch' = [batch EXCEPT !.written = Append(@, file),
                                       !.pc = AfterFormatFile(batch.cur)]
        ELSE /\ batch' = [batch EXCEPT !.cur = Failed(err),
                                       !.pc = AfterFormatFile(Failed(err))]
             /\ UNCHANGED disk
  /\ UNCHANGED <<procVars, regVars, cli, loader, sessVars>>

\* results.push({ file, ...result })
BatchPush ==
  /\ batch.pc = "push"
  /\ batch' = [batch EXCEPT
       !.results = Append(@, [file |-> batch.files[batch.i],
                              success |-> batch.cur.success,
                              formatted |-> batch.cur.formatted,
                              error |-> batch.cur.error]),
       !.i = @ + 1, !.pc = "loop"]
  /\ UNCHANGED <<procVars, regVars, disk, cli, loader, sessVars>>

\* The loop is over: formatFiles returns results.
BatchReturn ==
  /\ batch.pc = "loop" /\ batch.i > Len(batch.files)
  /\ batch' = [batch EXCEPT !.pc = "returned"]
  /\ UNCHANGED <<procVars, regVars, disk, cli, loader, sessVars>>

\* formatter.loadPlugins(pluginDir) starts: glob is called.
CallLoadPlugins ==
  /\ loader.pc \in {"idle", "resolved"} /\ Len(log) < MaxRegs
  /\ \E dir \in LoadDirs :
       loader' = [LoaderIdle EXCEPT !.pc = "glob", !.dir = dir]
  /\ UNCHANGED <<procVars, regVars, disk, batch, cli, sessVars>>

\* glob resolves with the plugin files, in an order of its own, and the
\* loop starts.
LoadGlob ==
  /\ loader.pc = "glob"
  /\ \E fs \in JsFiles(disk, loader.dir) :
       loader' = [loader EXCEPT !.files = fs, !.i = 1, !.pc = "import"]
  /\ UNCHANGED <<procVars, regVars, disk, batch, cli, sessVars>>

\* One iteration of the loop: import(pluginPath) settles and registerPlugin
\* is called with the module's plugin. When the import rejects or
\* registerPlugin throws, the catch block ends the call: the loop is left
\* and the promise resolves.
LoadImport ==
  /\ loader.pc = "import" /\ loader.i <= Len(loader.files)
  /\ LET pluginPath == PathJoin(loader.dir, loader.files[loader.i])
         plugin == ImportedPlugin(pluginPath)
     IN IF ImportRejects(disk, pluginPath)
        THEN /\ loader' = [loader EXCEPT !.pc = "resolved"]
             /\ UNCHANGED <<rules, plugins, thrown, log, shared>>
        ELSE /\ Register(plugin)
             /\ loader' = IF plugin.rules.kind = "array"
                          THEN [loader EXCEPT !.i = @ + 1]
                          ELSE [loader EXCEPT !.pc = "resolved"]
  /\ UNCHANGED <<procVars, fmtOptions, disk, batch, cli, sessVars>>

\* The loop is over: the promise of loadPlugins resolves.
LoadReturn ==
  /\ loader.pc = "import" /\ loader.i > Len(loader.files)
  /\ loader' = [loader EXCEPT !.pc = "resolved"]
  /\ UNCHANGED <<procVars, regVars, disk, batch, cli, sessVars>>

\* main, from its start to its first await: the help test, the options, the
\* file arguments, and the options of the command.
CliMain ==
  /\ cli.pc = "idle"
  /\ \E args \in CliArgLists :
       IF Includes(args, OptVersion) \/ Includes(args, OptVersionShort)
       THEN cli' = [cli EXCEPT !.args = args, !.pc = "version"]
       ELSE IF args = <<>> \/ Includes(args, OptHelp) \/ Includes(args, OptHelpShort)
       THEN cli' = [cli EXCEPT !.args = args, !.pc = "help"]
       ELSE
         LET command == args[1]
             commandArgs == Tail(args)
             glob == OptionValue(commandArgs, OptGlob)
             fileArgs == FileArgs(commandArgs, glob)
             width == OptionValue(commandArgs, OptWidth)
             level == OptionValue(commandArgs, OptHeaderLevel)
         IN cli' = [cli EXCEPT
              !.args = args, !.command = command, !.commandArgs = commandArgs,
              !.quiet = Includes(commandArgs, OptQuiet)
                          \/ Includes(commandArgs, OptQuietShort),
              !.glob = glob, !.fileArgs = fileArgs,
              !.recursive = Includes(commandArgs, OptRecursiveLong)
                              \/ Includes(commandArgs, OptRecursive),
              !.pluginsDir = IF command = Autoformat
                             THEN OptionValue(commandArgs, OptPlugins)
                             ELSE Null,
              !.wrapWidth = IF command = Autoformat /\ width # Null
                            THEN ParseInt(width) ELSE Num(88),
              !.headerLevel = IF command = Draft /\ level # Null
                              THEN ParseInt(level) ELSE Num(3),
              !.k = 1,
              !.pc = IF glob # Null \/ fileArgs = <<>> THEN "glob" ELSE "stat"]
  /\ UNCHANGED <<procVars, regVars, disk, batch, loader, sessVars>>

\* glob resolves: the files of options.glob, or all text files when there are
\* no file arguments.
CliGlob ==
  /\ cli.pc = "glob"
  /\ \E fs \in (IF cli.glob # Null THEN GlobPattern(disk, cli.glob)
                ELSE GlobAll(disk)) :
       cli' = [cli EXCEPT !.files = fs,
                          !.pc = IF fs = <<>> THEN "nofiles" ELSE "run"]
  /\ UNCHANGED <<procVars, regVars, disk, batch, loader, sessVars>>

\* One iteration of the loop over fileArgs: fs.stat(arg) settles, then the
\* file is pushed, glob is called for the directory, or the process exits
\* with 1.
CliStat ==
  /\ cli.pc = "stat" /\ cli.k <= Len(cli.fileArgs)
  /\ LET arg == cli.fileArgs[cli.k]
     IN CASE Stat(disk, arg) = "none" ->
               cli' = [cli EXCEPT !.pc = "exit", !.exit = "1"]
          [] Stat(disk, arg) = "dir" /\ ~cli.recursive ->
               cli' = [cli EXCEPT !.pc = "exit", !.exit = "1"]
          [] Stat(disk, arg) = "dir" /\ cli.recursive ->
               cli' = [cli EXCEPT !.pc = "dirglob"]
          [] OTHER ->
               cli' = [cli EXCEPT !.files = Append(@, arg), !.k = @ + 1]
  /\ UNCHANGED <<procVars, regVars, disk, batch, loader, sessVars>>

\* glob resolves for the directory at hand: its text files are pushed.
CliDirGlob ==
  /\ cli.pc = "dirglob"
  /\ \E fs \in GlobUnder(disk, cli.fileArgs[cli.k]) :
       cli' = [cli EXCEPT !.files = @ \o fs, !.k = @ + 1, !.pc = "stat"]
  /\ UNCHANGED <<procVars, regVars, disk, batch, loader, sessVars>>

\* The loop over fileArgs is over: main returns when there is nothing to
\* process.
CliFiles ==
  /\ cli.pc = "stat" /\ cli.k > Len(cli.fileArgs)
  /\ cli' = [cli EXCEPT !.pc = IF cli.files = <<>> THEN "nofiles" ELSE "run"]
  /\ UNCHANGED <<procVars, regVars, disk, batch, loader, sessVars>>

\* formatter.formatFiles(filesToProcess, { write: true, quiet }) is called.
StartFormatFiles ==
  batch' = [BatchIdle EXCEPT !.pc = "loop", !.files = cli.files,
                             !.write = TRUE, !.i = 1]

\* new AutoFormatter(options) and what main does up to its next await. The
\* name AutoFormatter is bound to one of the two classes exported under it.
\* The wrapper of TextProcessor has neither loadPlugins nor formatFiles: the
\* first TypeError is caught and reported, the second rejects main, whose
\* catch reports "Fatal error" and exits with 1; its processor is never
\* called. With the legacy class loadPlugins is called when --plugins was
\* given, formatFiles otherwise.
CliConstruct ==
  /\ cli.pc = "run"
  /\ \/ /\ cli' = [cli EXCEPT !.pc = "exit", !.exit = "1"]
        /\ UNCHANGED <<regVars, batch, loader>>
     \/ /\ rules' = defaultRules /\ plugins' = <<>>
        /\ fmtOptions' = CliOptions(cli)
        /\ UNCHANGED <<thrown, log, shared>>
        /\ IF cli.pluginsDir # Null
           THEN /\ loader' = [LoaderIdle EXCEPT !.pc = "glob",
                                                !.dir = cli.pluginsDir]
                /\ cli' = [cli EXCEPT !.pc = "plugins"]
                /\ UNCHANGED batch
           ELSE /\ StartFormatFiles
                /\ cli' = [cli EXCEPT !.pc = "formatFiles"]
                /\ UNCHANGED loader
  /\ UNCHANGED <<procVars, disk, sessVars>>

\* await formatter.loadPlugins(pluginsDir) resolved: formatFiles is called.
CliPluginsLoaded ==
  /\ cli.pc = "plugins" /\ loader.pc = "resolved"
  /\ loader' = LoaderIdle
  /\ StartFormatFiles
  /\ cli' = [cli EXCEPT !.pc = "formatFiles"]
  /\ UNCHANGED <<procVars, regVars, disk, sessVars>>

\* await formatter.formatFiles resolved: process.exit(failed > 0 ? 1 : 0).
CliExit ==
  /\ cli.pc = "formatFiles" /\ batch.pc = "returned"
  /\ LET failedCount == Len(SelectSeq(batch.results, LAMBDA r : ~r.success))
     IN cli' = [cli EXCEPT !.pc = "exit",
                           !.exit = IF failedCount > 0 THEN "1" ELSE "0"]
  /\ UNCHANGED <<procVars, regVars, disk, batch, loader, sessVars>>

\* Step 3 of process and processSync, and the return to the caller.
Cleanup ==
  /\ pc = "cleanup"
  /\ out' = cleanup(text)
  /\ pc' = "done"
  /\ UNCHANGED <<opts, mode, input, text, lines, idx, ctx, nlpInCode, nlpResult,
                 inflight, issued, failed>>
  /\ UNCHANGED <<fctx, regVars, envVars, sessVars>>

\* One TextProcessor and one legacy AutoFormatter, each constructed with one
\* of the option settings, the other with its defaults.
Init ==
  /\ \/ opts \in OptionSets /\ fmtOptions = legacyOptions
     \/ opts = defaultOptions /\ fmtOptions \in LegacyOptionSets
  /\ ProcIdle
  /\ RegInit
  /\ EnvInit

Next ==
  \/ CallProcessSync
  \/ CallProcess
  \/ CallCleanup
  \/ DetectStep
  \/ DetectReturn
  \/ BasicCleanup
  \/ NlpPass
  \/ NlpIssue
  \/ NlpResolve
  \/ NlpReject
  \/ NlpReturn
  \/ Cleanup
  \/ CallFormat
  \/ FormatStep
  \/ FormatReturn

Spec == Init /\ [][Next]_vars

\* ------------------------------------------- several documents, one instance
\* this.options of the wrapper AutoFormatter constructed without arguments,
\* as its TextProcessor merges them into the defaults.
wrapperOptions ==
  [defaultOptions EXCEPT !.nlp = FALSE, !.detectFolders = FALSE,
                         !.detectLists = FALSE, !.smartQuotes = FALSE,
                         !.smartEllipsis = FALSE]

\* The documents of a session: a fence that is never closed and a line after
\* it, a blank line and "ab", "# c" and "this is a note", "ab" and a blank
\* line.
SessionDocs ==
  { <<BT, BT, BT, NL, "a">>,
    <<NL, "a", "b">>,
    <<"#", " ", "c", NL, "t","h","i","s"," ","i","s"," ","a"," ","n","o","t","e">>,
    <<"a", "b", NL>> }

\* The instance may be handed another document.
MayCall == pc = "idle" /\ Len(returned) < MaxDocs

\* processor.processSync(x), also as the wrapper's format(x) makes the call.
DocProcessSync == MayCall /\ \E x \in SessionDocs : Begin("processSync", x)

\* processor.process(x)
DocProcess == MayCall /\ \E x \in SessionDocs : Begin("process", x)

\* The wrapper's formatAsync(x): it sets nlp of its processor's options and
\* calls processor.process(x).
DocFormatAsync ==
  /\ MayCall
  /\ opts' = [opts EXCEPT !.nlp = TRUE]
  /\ \E x \in SessionDocs :
       /\ mode' = "process" /\ input' = x
       /\ pc' = "detect" /\ lines' = Split(x) /\ idx' = 1 /\ ctx' = DetectInit
  /\ UNCHANGED <<text, nlpInCode, nlpResult, inflight, issued, failed, out>>
  /\ UNCHANGED <<fctx, regVars, envVars, sessVars>>

\* The legacy formatter's format(x).
DocFormat ==
  /\ MayCall
  /\ \E x \in SessionDocs : input' = x /\ lines' = Split(x)
  /\ mode' = "format" /\ pc' = "format" /\ idx' = 1 /\ fctx' = FormatInit
  /\ UNCHANGED <<opts, text, ctx, nlpInCode, nlpResult, inflight, issued,
                 failed, out>>
  /\ UNCHANGED <<regVars, envVars, sessVars>>

\* The caller has the value the call returned; the instance is idle again.
Return ==
  /\ pc = "done"
  /\ pc' = "idle"
  /\ returned' = Append(returned, input)
  /\ UNCHANGED <<opts, mode, input, text, lines, idx, ctx, nlpInCode, nlpResult,
                 inflight, issued, failed, out, fctx>>
  /\ UNCHANGED <<regVars, envVars, nuclear>>

\* A TextProcessor constructed with the defaults or by the wrapper, and a
\* legacy AutoFormatter.
SessionInit ==
  /\ opts \in {defaultOptions, wrapperOptions} /\ fmtOptions = legacyOptions
  /\ ProcIdle
  /\ RegInit
  /\ EnvInit

SessionNext ==
  \/ DocProcessSync
  \/ DocProcess
  \/ DocFormatAsync
  \/ DocFormat
  \/ Return
  \/ DetectStep
  \/ DetectReturn
  \/ BasicCleanup
  \/ NlpPass
  \/ NlpIssue
  \/ NlpResolve
  \/ NlpReject
  \/ NlpReturn
  \/ Cleanup
  \/ FormatStep
  \/ FormatReturn

SessionSpec == SessionInit /\ [][SessionNext]_vars

\* ------------------------------------------------------ nuclear mode runs
\* runNuclearMode(files, { quiet }) starts: checkEslintAvailable runs the
\* eslint command. With ESLint, getEslintIgnorePatterns is called and
\* getEslintConfigPath awaits fs.access on the eslint.config.js of the
\* working directory. Without, the locals overallSuccess and steps are set
\* and processFiles(filteredFiles, { write: true, quiet: true }) is called.
CallNuclear ==
  /\ nuclear.pc = "idle"
  /\ \E fs \in NuclearFileLists, q \in BOOLEAN, e \in BOOLEAN :
       nuclear' = [NuclearIdle EXCEPT !.pc = IF e THEN "access" ELSE "format",
                                      !.files = fs, !.quiet = q,
                                      !.hasEslint = e, !.filteredFiles = fs]
  /\ UNCHANGED <<procVars, regVars, envVars, returned>>

\* await fs.access(localConfig) settles: the configuration of the working
\* directory when there is one, the bundled one when the call rejects (disk
\* does not hold the file, so either happens); getEslintIgnorePatterns then
\* awaits fs.readFile(configPath).
NuclearAccess ==
  /\ nuclear.pc = "access"
  /\ \E c \in {"local", "bundled"} :
       nuclear' = [nuclear EXCEPT !.configPath = c, !.pc = "config"]
  /\ UNCHANGED <<procVars, regVars, envVars, returned>>

\* await fs.readFile(configPath) settles and the patterns of the ignores
\* array are taken from the text (none when the call rejects): a local
\* configuration may ignore any of the files, the bundled
\* src/eslint.config.js ignores none of the names used here. The files are
\* filtered, the locals overallSuccess and steps are set, and
\* processFiles(filteredFiles, { write: true, quiet: true }) is called.
NuclearConfig ==
  /\ nuclear.pc = "config"
  /\ \E ignored \in SUBSET (IF nuclear.configPath = "local"
                            THEN {nuclear.files[k] : k \in 1..Len(nuclear.files)}
                            ELSE {}) :
       nuclear' = [nuclear EXCEPT !.filteredFiles = NotIgnored(nuclear.files, ignored),
                                  !.overallSuccess = TRUE, !.steps = <<>>,
                                  !.pf = ProcessFilesStart,
                                  !.pc = "format"]
  /\ UNCHANGED <<procVars, regVars, envVars, returned>>

\* processFiles takes the next file and awaits read(filePath); an error goes
\* to the catch block of the iteration.
NuclearRead ==
  /\ nuclear.pc \in {"format", "validate", "report"} /\ nuclear.pf.at = "read"
  /\ nuclear.pf.i <= Len(nuclear.filteredFiles)
  /\ LET filePath == nuclear.filteredFiles[nuclear.pf.i]
     IN IF ReadError(disk, filePath) = ""
        THEN nuclear' = [nuclear EXCEPT !.pf.content = ReadFile(disk, filePath),
                                        !.pf.at = "process"]
        ELSE nuclear' = [nuclear EXCEPT !.pf.hasErrors = TRUE, !.pf.i = @ + 1]
  /\ UNCHANGED <<procVars, regVars, envVars, returned>>

\* await processor.process(file) settles: messages set hasErrors, and the
\* write is started when the call is one with write and without lintOnly.
NuclearProcess ==
  /\ nuclear.pc \in {"format", "validate", "report"} /\ nuclear.pf.at = "process"
  /\ \E o \in FileOutcomes :
       IF o = "error"
       THEN nuclear' = [nuclear EXCEPT !.pf.hasErrors = TRUE, !.pf.i = @ + 1,
                                       !.pf.at = "read"]
       ELSE IF nuclear.pc = "format"
       THEN \E r \in RemarkOutputs(nuclear.pf.content) :
              nuclear' = [nuclear EXCEPT !.pf.hasErrors = @ \/ o = "messages",
                                         !.pf.result = r, !.pf.at = "write"]
       ELSE nuclear' = [nuclear EXCEPT !.pf.hasErrors = @ \/ o = "messages",
                                       !.pf.i = @ + 1, !.pf.at = "read"]
  /\ UNCHANGED <<procVars, regVars, envVars, returned>>

\* await fs.writeFile(filePath, String(result)) settles: the file is counted
\* as processed, or the error goes to the catch block of the iteration.
NuclearWrite ==
  /\ nuclear.pc = "format" /\ nuclear.pf.at = "write"
  /\ LET filePath == nuclear.filteredFiles[nuclear.pf.i]
     IN IF WriteError(disk, filePath) = ""
        THEN /\ disk' = WriteFile(disk, filePath, nuclear.pf.result)
             /\ nuclear' = [nuclear EXCEPT !.pf.processedCount = @ + 1,
                                           !.pf.i = @ + 1, !.pf.at = "read"]
        ELSE /\ nuclear' = [nuclear EXCEPT !.pf.hasErrors = TRUE,
                                           !.pf.i = @ + 1, !.pf.at = "read"]
             /\ UNCHANGED disk
  /\ UNCHANGED <<procVars, regVars, batch, cli, loader, returned>>

\* Step 1 ends: processFiles returns and its step is pushed. processFiles
\* catches what a file throws, so the await resolves and the catch block of
\* the step is not entered. With ESLint, step 2 begins with
\* getEslintConfigPath, which awaits fs.access.
NuclearFormat ==
  /\ nuclear.pc = "format" /\ nuclear.pf.at = "read"
  /\ nuclear.pf.i > Len(nuclear.filteredFiles)
  /\ LET result == [ hasErrors |-> nuclear.pf.hasErrors,
                     processedCount |-> nuclear.pf.processedCount,
                     totalFiles |-> Len(nuclear.filteredFiles) ]
     IN nuclear' =
          [nuclear EXCEPT
             !.steps = Append(@, [ name |-> "Remark Format",
                                   success |-> result.processedCount > 0,
                                   details |-> <<"Formatted", result.processedCount,
                                                 result.totalFiles>> ]),
             !.pc = "eslint"]
  /\ UNCHANGED <<procVars, regVars, envVars, returned>>

\* Step 2: the ESLint command when ESLint is available (fs.access has
\* settled), and the push of its step; the step is pushed as skipped when it
\* is not. Then step 3 calls
\* processFiles(filteredFiles, { lintOnly: true, quiet: true }).
NuclearEslint ==
  /\ nuclear.pc = "eslint"
  /\ IF nuclear.hasEslint
     THEN \E o \in EslintOutcomes :
            nuclear' =
              [nuclear EXCEPT
                 !.steps = Append(@, [ name |-> "ESLint Fix",
                                       success |-> o # "issues",
                                       details |-> IF o = "issues"
                                                   THEN "Some issues remain"
                                                   ELSE "Fixed code blocks" ]),
                 !.pf = ProcessFilesStart,
                 !.pc = "validate"]
     ELSE nuclear' =
            [nuclear EXCEPT
               !.steps = Append(@, [ name |-> "ESLint Fix", success |-> TRUE,
                                     details |-> "Skipped (not installed)" ]),
               !.pf = ProcessFilesStart,
               !.pc = "validate"]
  /\ UNCHANGED <<procVars, regVars, envVars, returned>>

\* Step 3 ends: processFiles returns and the step is pushed. When the run is
\* not quiet and the validation found issues,
\* processFiles(filteredFiles, { lintOnly: true, quiet: false }) is called to
\* report them.
NuclearValidate ==
  /\ nuclear.pc = "validate" /\ nuclear.pf.at = "read"
  /\ nuclear.pf.i > Len(nuclear.filteredFiles)
  /\ LET hasIssues == nuclear.pf.hasErrors
     IN nuclear' =
          [nuclear EXCEPT
             !.overallSuccess = AfterValidation(@, hasIssues),
             !.steps = Append(@, [ name |-> "Validation",
                                   success |-> ~hasIssues,
                                   details |-> IF hasIssues THEN "Issues found"
                                               ELSE "All checks passed" ]),
             !.pf = IF ~nuclear.quiet /\ hasIssues THEN ProcessFilesStart ELSE @,
             !.pc = IF ~nuclear.quiet /\ hasIssues THEN "report" ELSE "summary"]
  /\ UNCHANGED <<procVars, regVars, envVars, returned>>

\* The summary, which changes nothing, and return { success: overallSuccess,
\* steps }; after the report of the remaining issues when there was one:
\* its processFiles call has returned, and what it returned is not used.
NuclearReturn ==
  /\ \/ nuclear.pc = "summary"
     \/ /\ nuclear.pc = "report" /\ nuclear.pf.at = "read"
        /\ nuclear.pf.i > Len(nuclear.filteredFiles)
  /\ nuclear' = [nuclear EXCEPT !.pc = "done"]
  /\ UNCHANGED <<procVars, regVars, envVars, returned>>

NuclearInit ==
  /\ opts = defaultOptions /\ fmtOptions = legacyOptions
  /\ ProcIdle
  /\ RegInit
  /\ EnvInit

NuclearNext ==
  \/ CallNuclear
  \/ NuclearAccess
  \/ NuclearConfig
  \/ NuclearRead
  \/ NuclearProcess
  \/ NuclearWrite
  \/ NuclearFormat
  \/ NuclearEslint
  \/ NuclearValidate
  \/ NuclearReturn

NuclearSpec == NuclearInit /\ [][NuclearNext]_vars

\* An AutoFormatter with plugins: registerPlugin calls, then format calls on
\* texts the plugins' rules act on.
PluginInit ==
  /\ opts = defaultOptions /\ fmtOptions = legacyOptions
  /\ ProcIdle
  /\ RegInit
  /\ EnvInit

RegisterBeforeFormat == pc = "idle" /\ \E p \in PluginArgs : RegisterPlugin(p)

PluginNext ==
  \/ RegisterBeforeFormat
  \/ CallFormatPlugin
  \/ FormatStep
  \/ FormatReturn

PluginSpec == PluginInit /\ [][PluginNext]_vars

\* An AutoFormatter formatting files: a formatFiles call, and the example
\* plugin registered once, at any point between the batch's steps.
BatchInit ==
  /\ opts = defaultOptions /\ fmtOptions = legacyOptions
  /\ ProcIdle
  /\ RegInit
  /\ EnvInit

RegisterExample == plugins = <<>> /\ RegisterPlugin(examplePlugin)

BatchNext ==
  \/ RegisterExample
  \/ CallFormatFiles
  \/ BatchReadFile
  \/ BatchFormat
  \/ BatchWriteFile
  \/ BatchPush
  \/ BatchReturn

BatchSpec == BatchInit /\ [][BatchNext]_vars

\* The command line: one run of main.
CliInit ==
  /\ opts = defaultOptions /\ fmtOptions = legacyOptions
  /\ ProcIdle
  /\ RegInit
  /\ EnvInit

CliNext ==
  \/ CliMain
  \/ CliGlob
  \/ CliStat
  \/ CliDirGlob
  \/ CliFiles
  \/ CliConstruct
  \/ LoadGlob
  \/ LoadImport
  \/ LoadReturn
  \/ CliPluginsLoaded
  \/ BatchReadFile
  \/ BatchFormat
  \/ BatchWriteFile
  \/ BatchPush
  \/ BatchReturn
  \/ CliExit

CliSpec == CliInit /\ [][CliNext]_vars

\* The registry alone: one AutoFormatter instance, its registerPlugin calls
\* and its loadPlugins calls, whose awaits let other calls in.
RegistryInit ==
  /\ opts = defaultOptions /\ fmtOptions = legacyOptions
  /\ ProcIdle
  /\ RegInit
  /\ EnvInit

RegisterAny == \E p \in PluginArgs : RegisterPlugin(p)

RegistryNext ==
  \/ RegisterAny
  \/ CallLoadPlugins
  \/ LoadGlob
  \/ LoadImport
  \/ LoadReturn

RegistrySpec == RegistryInit /\ [][RegistryNext]_vars


\* ================================================================= claims
\* The number of fence-delimiter lines among ls[1..k-1].
RECURSIVE FencesBefore(_, _)
FencesBefore(ls, k) ==
  IF k <= 1 THEN 0
  ELSE FencesBefore(ls, k - 1) + (IF IsFenceLine(ls[k - 1]) THEN 1 ELSE 0)

\* Line k of ls lies after an odd-numbered fence delimiter and before the next.
InsideFence(ls, k) == FencesBefore(ls, k) % 2 = 1

IsPrefix(a, b) == Len(a) <= Len(b) /\ SubSeq(b, 1, Len(a)) = a

\* The lines of ls strictly inside fenced blocks that are closed, in order.
ClosedInner(ls) ==
  LET RECURSIVE F(_, _)
      F(k, acc) ==
        IF k > Len(ls) THEN acc
        ELSE IF /\ ~IsFenceLine(ls[k])
                /\ InsideFence(ls, k)
                /\ \E j \in (k + 1)..Len(ls) : IsFenceLine(ls[j])
             THEN F(k + 1, Append(acc, ls[k]))
             ELSE F(k + 1, acc)
  IN F(1, <<>>)

HasTripleNewline(t) ==
  \E k \in 1..(Len(t) - 2) : t[k] = NL /\ t[k + 1] = NL /\ t[k + 2] = NL

HasNonWs(t) == \E k \in 1..Len(t) : ~IsWs(t[k])

\* t ends with exactly one newline, does not start with a blank line, and
\* none of its lines ends with whitespace.
WellFormedOutput(t) ==
  /\ Len(t) >= 1 /\ t[Len(t)] = NL
  /\ ~(Len(t) >= 2 /\ t[Len(t) - 1] = NL)
  /\ Trim(Split(t)[1]) # <<>>
  /\ \A k \in 1..Len(Split(t)) : TrimEnd(Split(t)[k]) = Split(t)[k]

IndentedB == <<" ", " ", " ", " ", "b">>

\* C1: processSync with the default options is idempotent: applied to its own
\* output it returns that output.
C1_ProcessSyncIdempotent ==
  (pc = "done" /\ mode = "processSync" /\ opts = defaultOptions)
    => processSync(out, opts) = out

\* C2: with preserveCodeBlocks enabled, detectStructure and applyNLP emit every
\* fence-delimiter line and every line between an odd-numbered delimiter and
\* the next one unchanged, one output line for each, in order, nothing emitted
\* before is touched, and each delimiter toggles the inside-code flag.
C2_Step ==
  /\ (pc = "detect" /\ idx' = idx + 1 /\ opts.preserveCodeBlocks) =>
       LET line == lines[idx]
           inside == InsideFence(lines, idx)
       IN /\ ctx.inCodeBlock = inside
          /\ ctx'.inCodeBlock = (IF IsFenceLine(line) THEN ~inside ELSE inside)
          /\ IsPrefix(ctx.processed, ctx'.processed)
          /\ (IsFenceLine(line) \/ inside)
               => ctx'.processed = Append(ctx.processed, line)
  /\ (pc \in {"nlp", "await"} /\ idx' = idx + 1 /\ opts.preserveCodeBlocks) =>
       LET line == lines[idx]
           inside == InsideFence(lines, idx)
       IN /\ nlpInCode = inside
          /\ nlpInCode' = (IF IsFenceLine(line) THEN ~inside ELSE inside)
          /\ IsPrefix(nlpResult, nlpResult')
          /\ (IsFenceLine(line) \/ inside)
               => pc = "nlp" /\ nlpResult' = Append(nlpResult, line)

C2_FenceInvariance == [][C2_Step]_vars

\* A fenced block whose inner line is indented has gone through both passes
\* and is in their outputs as it was in the input.
C2_Witness ==
  /\ pc = "nlp" /\ idx > Len(lines) /\ opts.preserveCodeBlocks
  /\ Len(Split(input)) = 3
  /\ IsFenceLine(Split(input)[1])
  /\ Split(input)[2] = IndentedB
  /\ ctx.processed = Split(input)
  /\ nlpResult = Split(input)

\* C3: with preserveCodeBlocks enabled, the lines inside a fenced block are in
\* the output of processSync as in the input, but for trailing whitespace.
C3_FencedLinesExempt ==
  (pc = "done" /\ mode = "processSync" /\ opts.preserveCodeBlocks) =>
    LET inner == ClosedInner(Split(input))
    IN ClosedInner(Split(out)) = [k \in 1..Len(inner) |-> TrimEnd(inner[k])]

\* The calls C4 is about: process, processSync and the legacy format, returned.
EntryPointDone == pc = "done" /\ mode \in {"process", "processSync", "format"}

\* C4: for every input that has a character that is not whitespace, and every
\* option setting, the output of process, processSync and the legacy format
\* ends with exactly one newline, does not start with a blank line, and has no
\* line that ends with whitespace; for an input of whitespace only (or empty)
\* the output is a single newline.
C4_FinalNewline ==
  EntryPointDone =>
    IF HasNonWs(input) THEN WellFormedOutput(out) ELSE out = <<NL>>

\* C4 as stated: the same of every non-empty input.
C4_Original ==
  (EntryPointDone /\ input # <<>>) => WellFormedOutput(out)

\* The legacy format returned for an input whose first and last lines are
\* whitespace only, around a line of text.
C4_Witness ==
  /\ pc = "done" /\ mode = "format"
  /\ Split(input) = << <<" ">>, <<"a">>, <<" ">> >>
  /\ out = <<"a", NL>>

\* C5: the output of process and processSync never holds three newlines in a
\* row.
C5_NoTripleNewline ==
  (pc = "done" /\ mode \in {"processSync", "process"}) => ~HasTripleNewline(out)

\* C6: cleanup is idempotent: cleanup(cleanup(t)) = cleanup(t).
C6_CleanupIdempotent ==
  (pc = "done" /\ mode = "cleanup") => cleanup(out) = out

\* C7: a line whose NLP call threw is in applyNLP's result as it was received,
\* the loop goes on after it (the call never rejects and is never stuck), and
\* process returns the cleanup of a result that has every line.
C7_NlpFailureRecovered ==
  /\ pc # "rejected"
  /\ \A k \in failed : k <= Len(nlpResult) /\ nlpResult[k] = lines[k]
  /\ (mode = "process" /\ pc \in {"nlp", "await"}) =>
       ENABLED (NlpPass \/ NlpIssue \/ NlpReject \/ NlpReturn \/ NlpResolve)
  /\ (mode = "process" /\ opts.nlp /\ pc = "done") =>
       /\ Len(nlpResult) = Len(lines)
       /\ out = cleanup(Join(nlpResult))

\* A call threw for one line, a later line was processed, and process returned.
C7_Witness ==
  /\ mode = "process" /\ pc = "done"
  /\ \E k \in failed : \E j \in (k + 1)..Len(lines) :
       j \notin failed /\ nlpResult[j] # lines[j]

\* C8: applyNLP has at most one NLP call pending, makes its calls in document
\* order, and its result has one line for each input line, line k being line k
\* of the input as it was or as the NLP call for it returned it.
C8_NlpSequential ==
  /\ Cardinality(inflight) <= 1
  /\ \A a, b \in 1..Len(issued) : a < b => issued[a] < issued[b]
  /\ pc = "await" => inflight = {idx}
  /\ pc \in {"nlp", "await"} => Len(nlpResult) = idx - 1
  /\ (mode = "process" /\ opts.nlp /\ pc \in {"nlp", "await", "cleanup", "done"}) =>
       \A k \in 1..Len(nlpResult) :
         nlpResult[k] \in {lines[k]} \cup NlpLines(lines[k], opts)
  /\ (mode = "process" /\ opts.nlp /\ pc \in {"cleanup", "done"}) =>
       /\ inflight = {}
       /\ Len(nlpResult) = Len(lines)

\* Two calls were made, one after the other, the first threw and the second
\* returned a changed line.
C8_Witness ==
  /\ mode = "process" /\ pc = "done"
  /\ Len(issued) >= 2
  /\ issued[1] \in failed
  /\ issued[2] \notin failed
  /\ nlpResult[issued[2]] # lines[issued[2]]

\* The rules of the plugins of ps, in order.
RECURSIVE PluginRules(_)
PluginRules(ps) ==
  IF ps = <<>> THEN <<>> ELSE ps[1].rules.items \o PluginRules(Tail(ps))

\* C9: the rule sequence is the default rules followed by the rules of each
\* successfully registered plugin, in call order, none dropped.
C9_RegistryOrder ==
  LET accepted == SelectSeq(log, LAMBDA p : p.rules.kind = "array")
  IN /\ plugins = accepted
     /\ rules = defaultRules \o PluginRules(accepted)

\* The example plugin was registered after another plugin and its rule named
\* like a built-in is a separate, later entry.
C9_Witness ==
  /\ Len(plugins) >= 2
  /\ plugins[Len(plugins)] = examplePlugin
  /\ \E i, j \in 1..Len(rules) :
       /\ i <= Len(defaultRules) /\ j > Len(defaultRules) + 1
       /\ rules[i].name = "priority-labels" /\ rules[j].name = "priority-labels"
       /\ rules[i] # rules[j]

ValidationError ==
  [type |-> "ValidationError", message |-> "rule set must provide a rules sequence"]

\* C10: registerPlugin with a rule set without a rules sequence throws a
\* ValidationError with the message "rule set must provide a rules sequence"
\* and leaves the rule sequence and the plugin list as they were.
C10_RegistrationValidation ==
  [][(log' # log /\ log'[Len(log')].rules.kind # "array")
       => (thrown' = ValidationError /\ rules' = rules /\ plugins' = plugins)]_vars

\* The line under "# c" is a numbered line.
NumberedUnderHeading == <<"#", " ", "c", NL, "1", ".", " ", "x">>

\* C11: in the line pass of the legacy format, a line outside fenced code that
\* the first-line rule does not take is emitted as the transform of the first
\* rule in registration order that is not skipped (first-line rules, multi-line
\* rules, context-gated rules whose gate is closed) and whose pattern matches
\* it, or as it is when there is none; no other transform is applied to it. A
\* numbered line is emitted as "### n. text", never in the form the later
\* ordered-lists rule gives it.
C11_Step ==
  (pc = "format" /\ idx' = idx + 1) =>
    LET line == lines[idx]
        n == Len(fctx.formatted)
        emitted == fctx'.formatted[n + 1]
        sbl == ShouldBeList(IF idx > 1 THEN fctx.formatted[n] ELSE <<>>,
                            IF idx > 2 THEN fctx.formatted[n - 1] ELSE <<>>)
        f == FirstLineRule(rules)
        takenByFirst == /\ fctx.isFirstNonEmptyLine /\ Trim(line) # <<>>
                        /\ f # 0 /\ RuleMatch(rules[f], line) # <<>>
        hits == {k \in 1..Len(rules) : /\ ~RuleSkipped(rules[k], line, sbl)
                                       /\ RuleMatch(rules[k], line) # <<>>}
    IN (~IsFenceLine(line) /\ ~InsideFence(lines, idx)) =>
         /\ Len(fctx'.formatted) = n + 1
         /\ SubSeq(fctx'.formatted, 1, n) = fctx.formatted
         /\ takenByFirst =>
              emitted = RuleTransform(rules[f], RuleMatch(rules[f], line))
         /\ (~takenByFirst /\ hits = {}) => emitted = line
         /\ (~takenByFirst /\ hits # {}) =>
              emitted = RuleTransform(rules[Min(hits)],
                                      RuleMatch(rules[Min(hits)], line))
         /\ (~takenByFirst /\ NumberedMatch(line) # <<>>) =>
              emitted = <<"#", "#", "#", " ">> \o NumberedMatch(line)[2]
                          \o <<".", " ">> \o NumberedMatch(line)[3]

C11_FirstRegisteredWins == [][C11_Step]_vars

\* format returned for a numbered line under a heading: the line is an H3
\* section, with the blank line the third pass puts before a heading.
C11_Witness ==
  /\ pc = "done" /\ mode = "format"
  /\ input = NumberedUnderHeading
  /\ out = <<"#", " ", "c", NL, NL, "#", "#", "#", " ", "1", ".", " ", "x", NL>>

\* The position of the first line of ls that is not blank, 0 when all are.
FirstNonBlank(ls) ==
  IF \E k \in 1..Len(ls) : Trim(ls[k]) # <<>>
  THEN Min({k \in 1..Len(ls) : Trim(ls[k]) # <<>>})
  ELSE 0

\* The first non-blank line of t does not start with '#', is not a folder
\* line, and a later line of t is not blank.
TitleCase(t) ==
  LET ls == Split(t)
      f == FirstNonBlank(ls)
  IN /\ f # 0
     /\ ~StartsWith(Trim(ls[f]), <<"#">>)
     /\ ~IsFolderLine(Trim(ls[f]))
     /\ \E k \in (f + 1)..Len(ls) : Trim(ls[k]) # <<>>

\* t starts with "# ", the trimmed first non-blank line of src, and exactly
\* one blank line.
StartsWithTitle(t, src) ==
  LET title == <<"#", " ">> \o Trim(Split(src)[FirstNonBlank(Split(src))])
                \o <<NL, NL>>
  IN /\ StartsWith(t, title)
     /\ Len(t) > Len(title)
     /\ t[Len(title) + 1] # NL

PipelineDone == pc = "done" /\ mode \in {"process", "processSync"}

\* C13: with firstLineTitle enabled, for every input whose first non-blank
\* line is not a code-fence delimiter, does not start with '#' and is not a
\* folder line, and which has a later non-blank line, the output of process
\* and processSync starts with "# ", that line's trimmed text, and exactly one
\* blank line.
C13_FirstLineTitle ==
  (/\ PipelineDone /\ opts.firstLineTitle /\ TitleCase(input)
   /\ ~IsFenceLine(Split(input)[FirstNonBlank(Split(input))]))
    => StartsWithTitle(out, input)

\* C13 as stated: the same of every such input, a first non-blank line that
\* is a code-fence delimiter included.
C13_Original ==
  (PipelineDone /\ opts.firstLineTitle /\ TitleCase(input))
    => StartsWithTitle(out, input)

HelloWorld ==
  <<"h","e","l","l","o"," ","w","o","r","l","d",NL,"m","o","r","e"," ","t","e","x","t">>

\* process returned for "hello world\nmore text".
C13_Witness ==
  /\ pc = "done" /\ mode = "process" /\ opts.firstLineTitle
  /\ input = HelloWorld
  /\ StartsWith(out, <<"#"," ","h","e","l","l","o"," ","w","o","r","l","d",NL,NL,"M">>)

\* The line has the shape "Key: value" of the label rule, carries no bold
\* marker and is not indented by two or more spaces.
LabelShape(line) ==
  /\ KeyValueMatches(Trim(line))
  /\ ~StartsWith(Trim(line), <<"*", "*">>)
  /\ LeadingWs(line) < 2

\* "**Key:** value" for a line of label shape.
BoldLabel(line) ==
  <<"*", "*">> \o KeyOf(Trim(line)) \o <<":", "*", "*", " ">> \o ValueOf(Trim(line))

\* C14: with detectLabels enabled, detectStructure emits every line outside
\* fenced code that has the label shape as "**Key:** value", wherever the line
\* is in the document, the first line included.
C14_Step ==
  (/\ pc = "detect" /\ idx' = idx + 1 /\ opts.detectLabels
   /\ ~IsFenceLine(lines[idx]) /\ ~InsideFence(lines, idx)
   /\ LabelShape(lines[idx]))
    => /\ Len(ctx'.processed) = Len(ctx.processed) + 1
       /\ ctx'.processed[Len(ctx'.processed)] = BoldLabel(lines[idx])

C14_LabelRule == [][C14_Step]_vars

\* name with each '-' and '_' turned into a space, the first letter of each
\* segment in upper case and its other letters in lower case.
TitleCased(name) ==
  [k \in 1..Len(name) |->
     IF name[k] \in {"-", "_"} THEN " "
     ELSE IF k = 1 \/ name[k - 1] \in {"-", "_"} THEN ToUpperCase(name[k])
     ELSE ToLowerCase(name[k])]

\* A line outside fenced code before position k of ls is a folder line.
FolderBefore(ls, k) ==
  \E j \in 1..(k - 1) :
    /\ ~IsFenceLine(ls[j]) /\ ~InsideFence(ls, j)
    /\ Trim(ls[j]) # <<>> /\ IsFolderLine(Trim(ls[j]))

\* C15: with detectFolders enabled, detectStructure emits every line outside
\* fenced code whose trimmed text has no space and ends with '/' as headerLevel
\* '#' characters, a space and the name without the '/', split on '-' and '_',
\* each segment capitalized, joined by spaces, and then one empty line; the
\* first-line slot is closed from then on, and no later line is emitted as the
\* H1 title of its text.
C15_Step ==
  (pc = "detect" /\ idx' = idx + 1 /\ opts.detectFolders) =>
    LET line == lines[idx]
        trimmed == Trim(line)
        outside == ~IsFenceLine(line) /\ ~InsideFence(lines, idx)
    IN /\ (outside /\ trimmed # <<>> /\ IsFolderLine(trimmed)) =>
            /\ ctx'.processed = ctx.processed \o
                 << Repeat("#", opts.headerLevel) \o <<" ">>
                      \o TitleCased(SubSeq(trimmed, 1, Len(trimmed) - 1)),
                    <<>> >>
            /\ ~ctx'.isFirstNonEmptyLine
       /\ FolderBefore(lines, idx) =>
            /\ ~ctx.isFirstNonEmptyLine /\ ~ctx'.isFirstNonEmptyLine
            /\ (trimmed # <<>> /\ ~StartsWith(trimmed, <<"#">>)) =>
                 \A k \in (Len(ctx.processed) + 1)..Len(ctx'.processed) :
                   ctx'.processed[k] # <<"#", " ">> \o trimmed

C15_FolderRule == [][C15_Step]_vars

MyProject == <<"m","y","-","p","r","o","j","e","c","t","/">>

\* detectStructure has scanned "my-project/" at header level 3.
C15_Witness ==
  /\ pc = "detect" /\ idx > Len(lines) /\ opts.detectFolders
  /\ input = MyProject /\ opts.headerLevel = 3
  /\ ctx.processed = << <<"#","#","#"," ","M","y"," ","P","r","o","j","e","c","t">>,
                        <<>> >>
  /\ ~ctx.isFirstNonEmptyLine

\* basicCleanup leaves the line alone: it is blank, a fence line, or starts
\* with a heading, list, quote, table or bold marker.
CleanupSkips(line) ==
  \/ Trim(line) = <<>>
  \/ Trim(line)[1] \in {"#", "-", "*", ">", "|"}
  \/ IsFenceLine(line)

EndsTerminal(s) == s # <<>> /\ s[Len(s)] \in {".", "!", "?", ":", ";"}

\* The 'i' at position k of s is a word of its own.
StandaloneI(s, k) ==
  /\ s[k] = "i"
  /\ (k = 1 \/ ~IsWordChar(s[k - 1]))
  /\ (k = Len(s) \/ ~IsWordChar(s[k + 1]))

\* C16: with capitalizeSentences and ensurePunctuation enabled, basicCleanup
\* returns a plain line that has no terminal punctuation and is not on the
\* exemption list with its first letter in upper case and exactly one '.'
\* appended, and a plain line that ends in '.', '!', '?', ':' or ';' or is on
\* the exemption list without anything appended; ensurePunctuation applied to
\* its own result changes nothing.
C16_Step ==
  (pc = "basic" /\ pc' = "cleanup" /\ opts.capitalizeSentences
   /\ opts.ensurePunctuation) =>
    LET old == Split(text)
        new == Split(text')
    IN /\ Len(new) = Len(old)
       /\ \A k \in 1..Len(old) :
            LET t == Trim(old[k])
                r == new[k]
            IN /\ CleanupSkips(old[k]) => r = old[k]
               /\ (~CleanupSkips(old[k]) /\ ~EndsTerminal(t) /\ ~SkipPunctuation(t)) =>
                    /\ Len(r) = Len(t) + 1
                    /\ r[Len(r)] = "."
                    /\ r[1] = ToUpperCase(t[1])
                    /\ \A j \in 2..Len(t) : r[j] = t[j] \/ StandaloneI(t, j)
               /\ (~CleanupSkips(old[k]) /\ (EndsTerminal(t) \/ SkipPunctuation(t))) =>
                    /\ Len(r) = Len(t)
                    /\ r[1] = ToUpperCase(t[1])
                    /\ ensurePunctuation(r) = r
               /\ ensurePunctuation(ensurePunctuation(old[k])) = ensurePunctuation(old[k])
               /\ ensurePunctuation(r) = r \/ CleanupSkips(old[k])
       /\ \A s \in LineKinds \cup PlainLines \cup LegacyLines :
            ensurePunctuation(ensurePunctuation(s)) = ensurePunctuation(s)

C16_PunctuationInsertion == [][C16_Step]_vars

ThisIsANote == <<"t","h","i","s"," ","i","s"," ","a"," ","n","o","t","e">>

\* processSync returned for "this is a note" under a heading.
C16_Witness ==
  /\ pc = "done" /\ mode = "processSync"
  /\ opts.capitalizeSentences /\ opts.ensurePunctuation
  /\ input = <<"#", " ", "c", NL>> \o ThisIsANote
  /\ out = <<"#", " ", "c", NL, NL>>
           \o <<"T","h","i","s"," ","i","s"," ","a"," ","n","o","t","e",".",NL>>

\* C17: with fixPronouns enabled, basicCleanup replaces each 'i' that is a
\* word of its own by 'I' and leaves every 'i' inside a larger word as it is
\* (but for the capitalization of the line's first letter); with fixPronouns
\* disabled it replaces no 'i' beyond that capitalization.
C17_Step ==
  (pc = "basic" /\ pc' = "cleanup") =>
    LET old == Split(text)
        new == Split(text')
    IN \A k \in 1..Len(old) :
         ~CleanupSkips(old[k]) =>
           LET t == Trim(old[k])
               r == new[k]
           IN /\ Len(r) >= Len(t)
              /\ \A j \in 1..Len(t) :
                   IF opts.fixPronouns /\ StandaloneI(t, j) THEN r[j] = "I"
                   ELSE IF j = 1 /\ opts.capitalizeSentences THEN r[j] = ToUpperCase(t[j])
                   ELSE r[j] = t[j]

LongUnbroken(line, width) ==
  /\ Trim(line) # <<>>
  /\ Trim(line)[1] \notin {"#", "-", "*", ">"}
  /\ ~IsFenceLine(line)
  /\ Len(Trim(line)) >= width
  /\ \E k \in 1..Len(line) :
       /\ RunOf(line, k, {".", "!", "?"}) >= 1
       /\ LET e == k + RunOf(line, k, {".", "!", "?"})
          IN /\ RunOf(line, e, WsSet) >= 1
             /\ e + RunOf(line, e, WsSet) <= Len(line)
             /\ line[e + RunOf(line, e, WsSet)] \in UpperSet

\* C20: with semanticBreaks enabled, the output of process and processSync
\* has no non-structural line of wrapWidth or more characters that still
\* holds several sentences: every such line was split at its sentence
\* boundaries.
C20_SemanticBreaks ==
  (PipelineDone /\ opts.semanticBreaks) =>
    \A k \in 1..Len(Split(out)) : ~LongUnbroken(Split(out)[k], opts.wrapWidth)

\* The file has a fault of its own: it cannot be read, the rules throw on its
\* text, or the call writes and it cannot be written.
OwnFault(file) ==
  \/ ReadError(disk, file) # ""
  \/ FormatThrows(ReadFile(disk, file), rules)
  \/ batch.write /\ WriteError(disk, file) # ""

C12_Results ==
  /\ batch.pc # "rejected"
  /\ Len(batch.results) <= Len(batch.files)
  /\ \A k \in 1..Len(batch.results) :
       LET r == batch.results[k]
       IN /\ r.file = batch.files[k]
          /\ ReadError(disk, r.file) # "" =>
               ~r.success /\ r.error = ReadError(disk, r.file)
          /\ ~OwnFault(r.file) => r.success /\ r.error = ""
          /\ ~r.success => r.error # "" /\ r.formatted = <<>>
  /\ batch.pc = "returned" => Len(batch.results) = Len(batch.files)
  /\ \A k \in 1..Len(batch.written) :
       /\ batch.write
       /\ \E j \in 1..Len(batch.files) : batch.files[j] = batch.written[k]

C12_Step ==
  LET file == batch.files[batch.i] IN
  /\ batch'.results # batch.results =>
       /\ batch.pc = "push"
       /\ Len(batch'.results) = Len(batch.results) + 1
       /\ SubSeq(batch'.results, 1, Len(batch.results)) = batch.results
       /\ batch'.results[Len(batch'.results)].file = file
       /\ batch.i = Len(batch.results) + 1
  /\ (batch.pc = "push" /\ batch' # batch) =>
       /\ batch'.pc = "loop" /\ batch'.i = batch.i + 1
       /\ batch'.results = Append(batch.results,
            [file |-> file, success |-> batch.cur.success,
             formatted |-> batch.cur.formatted, error |-> batch.cur.error])
  /\ (batch.pc = "loop" /\ batch'.pc = "returned") =>
       /\ batch.i = Len(batch.files) + 1
       /\ batch'.results = batch.results
  /\ (batch.pc = "format" /\ batch'.pc # "format") =>
       IF FormatThrows(batch.content, rules)
       THEN batch'.cur = Failed("TypeError") /\ batch'.pc = "push"
       ELSE batch'.cur = Succeeded(format(batch.content, rules, fmtOptions))
  /\ (disk' # disk \/ batch'.written # batch.written) =>
       /\ batch.pc = "write" /\ batch.write /\ batch.cur.success
       /\ batch'.written = Append(batch.written, file)
       /\ disk' = WriteFile(disk, file, batch.cur.formatted)

\* C12: formatFiles takes the files one at a time in input order and its
\* results hold one entry per file in that order; a file that cannot be read,
\* whose formatting throws or that cannot be written is recorded as
\* { success: false, error } and the loop goes on to the next file, so the
\* call never rejects and a file without a fault of its own succeeds whatever
\* its siblings did; the disk changes only in a call with the write option,
\* for the file at hand, after its formatting succeeded.
C12_BatchIsolation == []C12_Results /\ [][C12_Step]_vars

\* formatFiles(["2", "d.txt", "file.txt"], { write: true }) with the example
\* plugin registered returned: the first file could not be read, formatting
\* the second threw, the third was formatted and written.
C12_Witness ==
  /\ batch.pc = "returned" /\ batch.write
  /\ batch.files = <<Two, DatesTxt, FileTxt>>
  /\ ~batch.results[1].success /\ batch.results[1].error = "ENOENT"
  /\ ~batch.results[2].success /\ batch.results[2].error = "TypeError"
  /\ batch.results[3].success
  /\ batch.results[3].formatted = <<"#"," ","1","."," ","x",NL>>
  /\ ReadFile(disk, FileTxt) = <<"#"," ","1","."," ","x",NL>>
  /\ disk[DatesTxt] = InitialDisk[DatesTxt]
  /\ batch.written = <<FileTxt>>

\* The options of the command line that take a value.
ValueOptions == {OptHeaderLevel, OptWidth, OptPlugins}

\* A documented invocation: the command, then one option that takes a value,
\* its value, and a file.
Documented(args) ==
  /\ Len(args) = 4
  /\ \/ args[1] = Draft /\ args[2] = OptHeaderLevel
     \/ args[1] = Autoformat /\ args[2] \in {OptWidth, OptPlugins}
  /\ ~StartsWith(args[3], <<"-">>)
  /\ ~StartsWith(args[4], <<"-">>)

\* C19: on a documented invocation (draft --header-level n file,
\* autoformat --width n file, autoformat --plugins dir file) the argument
\* after the option is that option's value only: the file arguments are the
\* one file, and once the loop over the file arguments is over the files
\* to process are exactly that file when it exists.
C19_OptionValuesAreNotFiles ==
  (cli.pc \notin {"idle", "help", "version"} /\ Documented(cli.args)) =>
    /\ cli.fileArgs = <<cli.args[4]>>
    /\ (cli.pc \notin {"glob", "stat", "dirglob"}
          /\ Stat(disk, cli.args[4]) = "file")
         => cli.pc # "nofiles" /\ cli.files = <<cli.args[4]>>
    /\ cli.args[2] = OptHeaderLevel => cli.headerLevel = ParseInt(cli.args[3])
    /\ cli.args[2] = OptWidth => cli.wrapWidth = ParseInt(cli.args[3])
    /\ cli.args[2] = OptPlugins => cli.pluginsDir = cli.args[3]

\* What the table of the typography plugin gives for the matched text w of
\* its rule r: the two letters around an em dash, or the rule's symbol.
Substitution(r, w) ==
  CASE r = typographyRules[1] -> <<w[1], EMDASH, w[4]>>
    [] r = typographyRules[2] -> <<ARROW>>
    [] r = typographyRules[3] -> <<TRADEMARK>>
    [] r = typographyRules[4] -> <<REGISTERED>>
    [] r = typographyRules[5] -> <<COPYRIGHT>>

\* The line s with each match of the rule r replaced by its substitution
\* and the text outside the matches kept.
ReplaceEach(r, s) ==
  LET RECURSIVE F(_)
      F(k) ==
        IF k > Len(s) THEN <<>>
        ELSE LET n == GlobalMatchLen(r, s, k)
             IN IF n > 0
                THEN Substitution(r, SubSeq(s, k, k + n - 1)) \o F(k + n)
                ELSE <<s[k]>> \o F(k + 1)
  IN F(1)

TypographyRegistered == \E k \in 1..Len(plugins) : plugins[k] = typographyPlugin

\* C18: with the typography plugin registered, a line after the first
\* non-empty one, outside fenced code, whose first matching rule is a rule of
\* that plugin is emitted with each match of the rule replaced by the rule's
\* substitution and the rest of the line as it was: "word--word" with an em
\* dash between the words, "A -> B" with an arrow between the letters.
C18_Step ==
  (pc = "format" /\ idx' = idx + 1 /\ TypographyRegistered) =>
    LET line == lines[idx]
        n == Len(fctx.formatted)
        emitted == fctx'.formatted[n + 1]
        sbl == ShouldBeList(IF idx > 1 THEN fctx.formatted[n] ELSE <<>>,
                            IF idx > 2 THEN fctx.formatted[n - 1] ELSE <<>>)
        hits == {k \in 1..Len(rules) : /\ ~RuleSkipped(rules[k], line, sbl)
                                       /\ RuleMatch(rules[k], line) # <<>>}
    IN ( /\ ~IsFenceLine(line) /\ ~InsideFence(lines, idx)
         /\ ~fctx.isFirstNonEmptyLine
         /\ hits # {}
         /\ \E j \in 1..Len(typographyRules) :
              rules[Min(hits)] = typographyRules[j] ) =>
         emitted = ReplaceEach(rules[Min(hits)], line)

C18_GlobalRulesRewriteMatches == [][C18_Step]_vars

\* The lines one step of detectStructure pushed.
Pushed == SubSeq(ctx'.processed, Len(ctx.processed) + 1, Len(ctx'.processed))

\* The list item for a line with n leading whitespace characters: the nesting
\* indent, the marker and the content.
ListItem(line) ==
  LET n == LeadingWs(line)
  IN [k \in 1..(2 * ((n \div 2) - 1)) |-> " "] \o <<"-", " ">>
       \o SubSeq(line, n + 1, Len(line))

FolderHeading(trimmed, level) ==
  [k \in 1..level |-> "#"] \o <<" ">>
    \o TitleCased(SubSeq(trimmed, 1, Len(trimmed) - 1))

\* The line is indented by two or more whitespace characters and its content
\* starts with neither '-' nor '*'.
IndentedContent(line) ==
  /\ LeadingWs(line) >= 2 /\ LeadingWs(line) < Len(line)
  /\ Trim(line)[1] \notin {"-", "*"}

\* C22: detectStructure handles each non-blank line outside fenced code by
\* exactly one of the folder rule, the first-line-title rule, the
\* indented-list rule, the label rule and the generic rule table, the first in
\* that order that applies: a first line that is a folder line becomes the
\* folder heading, a first line of label shape becomes the H1 title, and an
\* indented line of label shape becomes a list item.
C22_Step ==
  (pc = "detect" /\ idx' = idx + 1) =>
    LET line == lines[idx]
        trimmed == Trim(line)
        folder == opts.detectFolders /\ IsFolderLine(trimmed)
        title == /\ opts.firstLineTitle /\ ctx.isFirstNonEmptyLine
                 /\ ~StartsWith(trimmed, <<"#">>)
        list == opts.detectLists /\ IndentedContent(line)
        label == /\ opts.detectLabels /\ KeyValueMatches(trimmed)
                 /\ ~StartsWith(trimmed, <<"*", "*">>)
    IN (trimmed # <<>> /\ ~IsFenceLine(line) /\ ~InsideFence(lines, idx)) =>
         /\ folder => Pushed = <<FolderHeading(trimmed, opts.headerLevel), <<>> >>
         /\ (~folder /\ title) => Pushed = << <<"#", " ">> \o trimmed, <<>> >>
         /\ (~folder /\ ~title /\ list) => Pushed = <<ListItem(line)>>
         /\ (~folder /\ ~title /\ ~list /\ label) => Pushed = <<BoldLabel(line)>>
         /\ (~folder /\ ~title /\ ~list /\ ~label) =>
              /\ Len(Pushed) = 1
              /\ Pushed[1] \in
                   { trimmed, <<"#", "#", " ">> \o trimmed,
                     <<BT>> \o trimmed \o <<BT>> }
                   \cup { <<"*", "*">> \o w \o <<"*", "*">>
                            \o SubSeq(trimmed, Len(w) + 1, Len(trimmed)) :
                          w \in {x \in PriorityWords : StartsWith(trimmed, x)} }

C22_FixedPrecedence == [][C22_Step]_vars

\* Two empty lines in a row at k and k + 1 of ls, both outside fenced code.
EmptyPairAt(ls, k) ==
  /\ ls[k] = <<>> /\ ls[k + 1] = <<>>
  /\ ~InsideFence(ls, k) /\ ~InsideFence(ls, k + 1)

\* C23: with collapseBlankLines on, the lines detectStructure has emitted never
\* hold two consecutive empty lines outside fenced code, and outside fenced
\* code the flag prevLineWasBlank is true exactly when the last emitted line
\* is empty, the empty line emitted after a folder or title heading included.
C23_BlankLineCollapsing ==
  (pc = "detect" /\ opts.collapseBlankLines) =>
    LET p == ctx.processed
    IN /\ \A k \in 1..(Len(p) - 1) : ~EmptyPairAt(p, k)
       /\ (~ctx.inCodeBlock /\ Len(p) > 0) =>
            (ctx.prevLineWasBlank <=> p[Len(p)] = <<>>)

\* Some line before lines[k] is not blank.
NonFirst(ls, k) == \E j \in 1..(k - 1) : Trim(ls[j]) # <<>>

\* lines[idx] is outside fenced code, indented by n >= 2 whitespace
\* characters, and its content starts with neither '-' nor '*'.
IndentedCase ==
  /\ pc = "detect" /\ idx' = idx + 1 /\ opts.detectLists
  /\ ~IsFenceLine(lines[idx]) /\ ~InsideFence(lines, idx)
  /\ IndentedContent(lines[idx])

\* What C24 says of the line pushed for lines[idx]: 2 * (floor(n / 2) - 1)
\* spaces, never fewer than none, then "- ", then the content.
IndentedEmitted ==
  LET line == lines[idx]
      n == LeadingWs(line)
      content == SubSeq(line, n + 1, Len(line))
      spaces == 2 * ((n \div 2) - 1)
  IN /\ spaces >= 0
     /\ Len(Pushed) = 1
     /\ Len(Pushed[1]) = spaces + 2 + Len(content)
     /\ \A k \in 1..spaces : Pushed[1][k] = " "
     /\ SubSeq(Pushed[1], spaces + 1, Len(Pushed[1])) = <<"-", " ">> \o content
     /\ n \in {2, 3} => Pushed[1] = <<"-", " ">> \o content
     /\ n \in {4, 5} => Pushed[1] = <<" ", " ", "-", " ">> \o content

\* C24: with detectLists enabled, a line outside fenced code that is not the
\* first non-blank line of the document, has n >= 2 leading whitespace
\* characters and whose content starts with neither '-' nor '*' is emitted
\* as 2 * (floor(n / 2) - 1) spaces, "- " and the content: 2 or 3 leading
\* spaces give "- x", 4 or 5 give "  - x", and the indent is never negative.
C24_Step ==
  (IndentedCase /\ NonFirst(lines, idx)) => IndentedEmitted

C24_IndentedList == [][C24_Step]_vars

\* The step of detectStructure for lines[idx] turned the line, which does not
\* start with '#', into an H1 title.
TitledByDetect ==
  /\ pc = "detect" /\ idx' = idx + 1
  /\ Trim(lines[idx]) # <<>> /\ ~StartsWith(Trim(lines[idx]), <<"#">>)
  /\ Len(Pushed) >= 1 /\ Pushed[1] = <<"#", " ">> \o Trim(lines[idx])

\* The same of the first pass of AutoFormatter.format.
TitledByFormat ==
  /\ pc = "format" /\ idx' = idx + 1
  /\ Trim(lines[idx]) # <<>> /\ lines[idx][1] # "#"
  /\ fctx'.formatted = Append(fctx.formatted, <<"#", " ">> \o lines[idx])

\* C30: a line is turned into the H1 title by the first-line rule only if
\* every line before it in the document is blank; so at most one line of a
\* document is, and none is when the first non-empty line is a code-fence
\* delimiter, a heading or a folder line.
C30_Step == (TitledByDetect \/ TitledByFormat) => ~NonFirst(lines, idx)

C30_FirstLineSlot == [][C30_Step]_vars

\* The line starts with 1 to 6 '#' followed by whitespace.
HeadingLine(l) ==
  /\ HashRun(l, 1) \in 1..6
  /\ Len(l) > HashRun(l, 1)
  /\ IsWs(l[HashRun(l, 1) + 1])

\* The lines of a text that ends with its final newline.
OutLines(t) == Split(SubSeq(t, 1, Len(t) - 1))

\* In the lines ls every heading line but the first line comes after an empty
\* line.
BlankBeforeEach(ls) ==
  \A k \in 2..Len(ls) : HeadingLine(ls[k]) => ls[k - 1] = <<>>

\* In the lines ls every heading line followed by a non-heading line is
\* followed by an empty line.
BlankAfterEach(ls) ==
  \A k \in 1..(Len(ls) - 1) :
    (HeadingLine(ls[k]) /\ ~HeadingLine(ls[k + 1])) => ls[k + 1] = <<>>

\* The text has neither a heading line nor a blank line.
NoHeadingNoBlank(t) ==
  \A k \in 1..Len(Split(t)) :
    ~HeadingLine(Split(t)[k]) /\ Trim(Split(t)[k]) # <<>>

\* C26: in the output of cleanup every heading line that is not the first
\* line is preceded by an empty line, every heading line followed by a
\* non-heading line is followed by an empty line, and no blank line is
\* inserted between two adjacent lines neither of which is a heading line: a
\* text without heading lines and blank lines gets no empty line.
C26_HeadingSpacing ==
  (pc = "done" /\ mode = "cleanup") =>
    /\ BlankBeforeEach(OutLines(out))
    /\ BlankAfterEach(OutLines(out))
    /\ NoHeadingNoBlank(input) => \A k \in 1..Len(OutLines(out)) : OutLines(out)[k] # <<>>

\* The first pass of format handles lines[idx], a line after the first-line
\* slot and outside fenced code that the rule 'list-items-after-colon'
\* converts when it is in list context.
PlainAfter ==
  /\ pc = "format" /\ idx' = idx + 1 /\ idx > 1
  /\ ~fctx.isFirstNonEmptyLine /\ ~fctx.inCodeBlock
  /\ ~StartsWith(Trim(lines[idx]), Fence)
  /\ ApplyRules(rules, 1, lines[idx], TRUE) = <<"-", " ">> \o lines[idx]

\* The line emitted before it.
PrevEmitted == fctx.formatted[Len(fctx.formatted)]

\* The label rule turned the line before it into the bold-label form.
AfterBoldLabel ==
  /\ ~StartsWith(lines[idx - 1], <<"*", "*">>)
  /\ StartsWith(PrevEmitted, <<"*", "*">>)
  /\ Contains(PrevEmitted, <<":", "*", "*">>)

AfterColon == EndsWith(PrevEmitted, <<":">>)

AfterListItem == StartsWith(Trim(PrevEmitted), <<"-", " ">>)

EmittedAsItem ==
  fctx'.formatted = Append(fctx.formatted, <<"-", " ">> \o lines[idx])

\* C25: in AutoFormatter.format a plain capitalized line that follows a line
\* the label rule turned into the bold-label form, an emitted line ending in
\* ':' or an emitted list item is in list context and is emitted as
\* "- " and the line.
C25_Step ==
  (PlainAfter /\ (AfterBoldLabel \/ AfterColon \/ AfterListItem)) => EmittedAsItem

C25_ListContextAfterLabel == [][C25_Step]_vars

StepNames == <<"Remark Format", "ESLint Fix", "Validation">>

\* The steps recorded so far are the first steps of the workflow, in its
\* order.
StepsInOrder ==
  /\ Len(nuclear.steps) <= 3
  /\ \A k \in 1..Len(nuclear.steps) : nuclear.steps[k].name = StepNames[k]

\* C21: runNuclearMode records exactly the three steps Remark Format, ESLint
\* Fix and Validation, in this order: each step is pushed once whatever the
\* steps before it reported, the run returns with all three, and the success
\* it returns is false whenever the validation step reports issues (no step
\* throws: processFiles catches the errors of the files).
C21_Results ==
  /\ StepsInOrder
  /\ nuclear.pc = "eslint" => Len(nuclear.steps) = 1
  /\ nuclear.pc = "validate" => Len(nuclear.steps) = 2
  /\ nuclear.pc \in {"access", "config"} => Len(nuclear.steps) = 0
  /\ nuclear.pc \in {"summary", "report", "done"} =>
       /\ Len(nuclear.steps) = 3
       /\ ~nuclear.steps[3].success => ~nuclear.overallSuccess

C21_Step ==
  nuclear' # nuclear =>
    /\ nuclear.pc # "done"
    /\ (nuclear.pc \in {"format", "eslint", "validate"}
          /\ nuclear'.pc # nuclear.pc) =>
         /\ Len(nuclear'.steps) = Len(nuclear.steps) + 1
         /\ SubSeq(nuclear'.steps, 1, Len(nuclear.steps)) = nuclear.steps
    /\ (nuclear'.pc = nuclear.pc \/ nuclear.pc \in {"summary", "report"})
         => nuclear'.steps = nuclear.steps

C21_NuclearWorkflow == []C21_Results /\ [][C21_Step]_vars

\* A run returned whose first two steps failed and whose validation found
\* issues: all three steps are recorded and success is false.
C21_Witness ==
  /\ nuclear.pc = "done" /\ Len(nuclear.steps) = 3
  /\ ~nuclear.steps[1].success /\ ~nuclear.steps[2].success
  /\ ~nuclear.steps[3].success /\ ~nuclear.overallSuccess

\* What applyNLP can give for line k of the lines ls when the NLP calls for
\* the lines of F throw.
NlpLineOf(ls, k, o, F) ==
  IF \/ IsFenceLine(ls[k]) \/ NlpSkips(ls[k], InsideFence(ls, k)) \/ k \in F
  THEN {ls[k]} ELSE NlpLines(ls[k], o)

\* What applyNLP can give for the lines ls.
NlpLinesOf(ls, o, F) ==
  { r \in [1..Len(ls) -> UNION {NlpLineOf(ls, k, o, F) : k \in 1..Len(ls)}] :
      \A k \in 1..Len(ls) : r[k] \in NlpLineOf(ls, k, o, F) }

\* What process(x) can give on a newly constructed TextProcessor with the
\* options o when the NLP calls for the lines of F throw.
FreshProcess(x, o, F) ==
  IF o.nlp
  THEN { cleanup(Join(r)) : r \in NlpLinesOf(Split(detectStructure(x, o)), o, F) }
  ELSE { cleanup(detectStructure(x, o)) }

\* C27: whatever documents the instance processed before, the value a call
\* returns for a document is the value a newly constructed instance with the
\* same options gives for it (with NLP, one of the values its parser's tables
\* allow): an open code fence, a consumed first-line slot or a blank-line
\* flag left by an earlier document has no effect.
C27_FreshContext ==
  pc = "done" =>
    /\ mode = "processSync" => out = processSync(input, opts)
    /\ mode = "process" => out \in FreshProcess(input, opts, failed)
    /\ mode = "format" => out = format(input, rules, fmtOptions)

\* processSync returned for a blank line and "ab" after the same instance
\* processed the document whose code fence is never closed.
C27_Witness ==
  /\ pc = "done" /\ mode = "processSync" /\ opts = defaultOptions
  /\ returned = << <<BT, BT, BT, NL, "a">> >>
  /\ input = <<NL, "a", "b">>
  /\ out = <<"#", " ", "a", "b", NL>>

\* C29: no call of format, formatAsync, process or processSync changes the
\* option values the pipeline uses: the options of the TextProcessor and of
\* the legacy AutoFormatter stay as construction fixed them, so a processor
\* built with nlp disabled has it disabled after a formatAsync call.
C29_Step == opts' = opts /\ fmtOptions' = fmtOptions

C29_OptionsImmutable == [][C29_Step]_vars

\* C28: format, formatFile and formatFiles leave the rule sequence and the
\* plugin list of the instance as they are, and registerPlugin changes
\* neither the module's defaultRules nor the rule sequence of another
\* instance.
C28_Step ==
  /\ (batch' # batch \/ disk' # disk) => (rules' = rules /\ plugins' = plugins)
  /\ shared' = shared

C28_Shared ==
  /\ shared.defaultRules = defaultRules
  /\ shared.otherRules = defaultRules

C28_RegistryPrivate == []C28_Shared /\ [][C28_Step]_vars

\* formatFiles ran on the instance after registerPlugin added the rules of
\* the example plugin to it: its rule sequence has them, defaultRules and
\* the other instance's do not.
C28_Witness ==
  /\ batch.pc = "returned" /\ Len(batch.results) > 0
  /\ rules = defaultRules \o examplePlugin.rules.items
  /\ shared.otherRules = defaultRules

====
